---- MODULE Spec2Model ----
(***************************************************************************)
(* State-machine model of the veil-protocol program                        *)
(* (src/programs/veil-protocol/src/lib.rs): identity commitment and        *)
(* time-locked recovery, commit-reveal voting, stealth multisig and the    *)
(* note-based shielded pool.                                               *)
(*                                                                         *)
(* Every instruction handler is one action.  An action covers the whole    *)
(* instruction: the account constraints of its #[derive(Accounts)] struct  *)
(* (init = the address must be free, otherwise the account must exist),    *)
(* the require! checks in the order of the code, the writes and the emit!. *)
(* The outcome of the instruction just executed is kept in `res`.          *)
(*                                                                         *)
(* 32-byte values ([u8; 32], Pubkey, keccak digests) are drawn from a      *)
(* finite universe of HashSpace representative values, named by a word     *)
(* id 0..HashSpace-1; WordBytes gives the bytes a word id stands for.      *)
(* keccak is modelled by a deterministic absorb-style function into that   *)
(* universe.                                                               *)
(***************************************************************************)
EXTENDS Integers, Sequences, FiniteSets, TLC

----------------------------------------------------------------------------
(* Program constants *)

MAX_MULTISIG_SIGNERS == 10
MAX_SHIELDED_NOTES == 256
MERKLE_TREE_DEPTH == 8
SECONDS_PER_DAY == 86400
SECONDS_PER_EPOCH == 432000
MIN_TIMELOCK_DAYS == 1
MAX_TIMELOCK_DAYS == 90
GROTH16_PROOF_LEN == 256
MIN_RANGE_PROOF_LEN == 64
MAX_REWARD_RATE_BPS == 10000
MAX_LOCKUP_EPOCHS == 52
WORD_LEN == 32

BN128_MODULUS ==
    << 48, 100, 78, 114, 225, 49, 160, 41,
       184, 80, 69, 182, 129, 129, 88, 93,
       151, 129, 106, 145, 104, 113, 202, 141,
       60, 32, 140, 22, 216, 124, 253, 71 >>

----------------------------------------------------------------------------
(* Bounds of the model *)

\* number of representative 32-byte values (size of the digest universe)
HashSpace == 7
\* the clock takes the values d * 86400, d in 0..MaxDays
MaxDays == 2
\* successful instructions per behaviour
MaxOps == 6
\* deposits per pool
MaxNotes == 2
MaxPoolOps == 3
MaxPairOps == 4
MaxOpsAll == 3
MaxProofOps == 3
FillSlack == 1

----------------------------------------------------------------------------
(* 32-byte values *)

Words == 0 .. (HashSpace - 1)

ZERO32 == 0
WORD_MAX == HashSpace - 1
WORD_MODULUS == HashSpace - 2
WORD_BELOW_MODULUS == HashSpace - 3

\* the bytes a word id stands for: all zero, 00 01 00.., k 00 00.., the BN128
\* modulus minus one, the modulus itself, and FF..FF
WordBytes(w) ==
    IF w = ZERO32 THEN [i \in 1..WORD_LEN |-> 0]
    ELSE IF w = WORD_MAX THEN [i \in 1..WORD_LEN |-> 255]
    ELSE IF w = WORD_MODULUS THEN BN128_MODULUS
    ELSE IF w = WORD_BELOW_MODULUS
         THEN [i \in 1..WORD_LEN |-> IF i = WORD_LEN THEN BN128_MODULUS[i] - 1
                                                      ELSE BN128_MODULUS[i]]
    ELSE IF w = 1 THEN [i \in 1..WORD_LEN |-> IF i = 2 THEN 1 ELSE 0]
    ELSE [i \in 1..WORD_LEN |-> IF i = 1 THEN w - 1 ELSE 0]

\* Vec<u8> arguments are sequences of whole 32-byte words
ByteLen(blob) == WORD_LEN * Len(blob)

\* Pubkey::as_ref(): the 32 bytes of an address
Pubkeys == {"alice", "bob"}
PubkeyWord(k) == IF k = "alice" THEN 2 ELSE 3

\* one absorption step of the digest: for every input x a permutation of the
\* running state that is not affine, so that no suffix of the data erases or
\* cancels what was absorbed before it
Mix(h, x) ==
    LET v == (5 * h + x + 1) % HashSpace
    IN  IF v = 0 THEN 1 ELSE IF v = 1 THEN 0 ELSE v

\* keccak::hash over the concatenation `data` (a sequence of words and bytes)
RECURSIVE Absorb(_, _)
Absorb(h, data) ==
    IF data = << >> THEN h ELSE Absorb(Mix(h, Head(data)), Tail(data))

keccak_hash(data) == Absorb(0, data)

\* to_le_bytes of the unsigned integer types: `count` bytes, least significant first
RECURSIVE le_bytes(_, _)
le_bytes(n, count) ==
    IF count = 0 THEN << >> ELSE << n % 256 >> \o le_bytes(n \div 256, count - 1)

to_le_bytes32(n) == le_bytes(n, 4)

\* i64::to_le_bytes of a non-negative timestamp
to_le_bytes64(n) == le_bytes(n, 8)

to_le_bytes16(n) == le_bytes(n, 2)

----------------------------------------------------------------------------
(* State of the program: the clock and the accounts it owns *)

VARIABLES
    now,            \* Clock::get()?.unix_timestamp
    wallets,        \* WalletAccount by owner            (seeds: "wallet", user)
    proposals,      \* Proposal by <<creator, proposal_id>>
    vote_records,   \* VoteRecord by <<proposal key, voter>>
    multisigs,      \* StealthMultisig by <<creator, vault_id>>
    ms_proposals,   \* MultisigProposal by <<multisig key, proposal_id>>
    pools,          \* ShieldedPool by <<creator, pool_id>>
    notes,          \* ShieldedNote by <<pool key, note index>>
    nullifiers,     \* NullifierRecord by <<pool key, nullifier>>
    inserted,       \* per pool, the <<commitment, index>> pairs folded into merkle_root
    res,            \* the instruction just executed: call, error code, events
    okCount,        \* instructions that returned Ok(())
    eventCount      \* events in the program log

----------------------------------------------------------------------------
(* Helper functions of the program *)

\* a plausible slip: a value equal to the modulus accepted
RECURSIVE field_compare_inclusive(_, _)
field_compare_inclusive(value, i) ==
    IF i > WORD_LEN THEN TRUE
    ELSE IF value[i] < BN128_MODULUS[i] THEN TRUE
    ELSE IF value[i] > BN128_MODULUS[i] THEN FALSE
    ELSE field_compare_inclusive(value, i + 1)

\* first index in i..32 at which value differs from the modulus decides
RECURSIVE field_compare(_, _)
field_compare(value, i) ==
    IF i > WORD_LEN THEN FALSE
    ELSE IF value[i] < BN128_MODULUS[i] THEN TRUE
    ELSE IF value[i] > BN128_MODULUS[i] THEN FALSE
    ELSE field_compare(value, i + 1)

verify_field_element(value) ==
    IF Len(value) # WORD_LEN THEN FALSE ELSE field_compare(value, 1)

\* a plausible slip: the voter key left out of the preimage
compute_vote_commitment_no_voter(vote_choice, secret, voter) ==
    keccak_hash(<< IF vote_choice THEN 1 ELSE 0, secret >>)

compute_vote_commitment(vote_choice, secret, voter) ==
    keccak_hash(<< IF vote_choice THEN 1 ELSE 0, secret, PubkeyWord(voter) >>)

\* a plausible slip: the leaf index left out of the hashed data
insert_note_to_merkle_tree_no_index(current_root, note_commitment, note_index) ==
    keccak_hash(<< current_root, note_commitment >>)

\* a plausible slip: the insertion time mixed into the root
insert_note_to_merkle_tree_timestamped(current_root, note_commitment, note_index) ==
    keccak_hash(<< current_root, note_commitment >> \o to_le_bytes32(note_index)
                \o to_le_bytes64(now))


\* an insertion that hashes the commitment ahead of the running root
insert_note_to_merkle_tree_swapped(current_root, note_commitment, note_index) ==
    keccak_hash(<< note_commitment, current_root >> \o to_le_bytes32(note_index))

insert_note_to_merkle_tree(current_root, note_commitment, note_index) ==
    keccak_hash(<< current_root, note_commitment >> \o to_le_bytes32(note_index))

RECURSIVE merkle_fold(_, _, _, _)
merkle_fold(current_hash, proof, path_indices, i) ==
    IF i > MERKLE_TREE_DEPTH THEN current_hash
    ELSE LET sibling  == proof[i]
             is_right == (path_indices \div (2 ^ (i - 1))) % 2 = 1
             combined == IF is_right THEN << sibling, current_hash >>
                                     ELSE << current_hash, sibling >>
         IN  merkle_fold(keccak_hash(combined), proof, path_indices, i + 1)


\* a fold that ignores the path byte and always places the sibling on the right
verify_merkle_proof_left_only(root, proof, path_indices, leaf_hash) ==
    LET fold[i \in 0..MERKLE_TREE_DEPTH] ==
            IF i = 0 THEN leaf_hash
            ELSE keccak_hash(<< fold[i - 1], proof[i] >>)
    IN  fold[MERKLE_TREE_DEPTH] = root

verify_merkle_proof(root, proof, path_indices, leaf_hash) ==
    merkle_fold(leaf_hash, proof, path_indices, 1) = root

\* the first two bytes of a digest
DigestByte(w, i) == WordBytes(w)[i]

RECURSIVE SumBytes(_, _)
SumBytes(bytes, i) == IF i > Len(bytes) THEN 0 ELSE bytes[i] + SumBytes(bytes, i + 1)

verify_range_proof(commitment, proof) ==
    IF commitment = ZERO32 THEN FALSE
    ELSE IF ByteLen(proof) < MIN_RANGE_PROOF_LEN THEN FALSE
    ELSE IF SumBytes(WordBytes(proof[1]), 1) = 0 THEN FALSE
    ELSE LET hash == keccak_hash(<< commitment >> \o proof)
         IN  DigestByte(hash, 1) # 0 \/ DigestByte(hash, 2) # 0

verify_withdrawal_proof(nullifier, output_commitment, merkle_root, proof) ==
    IF ByteLen(proof) < GROTH16_PROOF_LEN THEN FALSE
    ELSE IF ~verify_field_element(WordBytes(proof[1]))
            \/ ~verify_field_element(WordBytes(proof[2])) THEN FALSE
    ELSE IF ~verify_field_element(WordBytes(proof[7]))
            \/ ~verify_field_element(WordBytes(proof[8])) THEN FALSE
    ELSE LET hash == keccak_hash(<< nullifier, output_commitment, merkle_root >> \o proof)
         IN  DigestByte(hash, 1) # 255

verify_reward_proof(stake_nullifier, new_note_commitment, reward_rate_bps, current_time, proof) ==
    IF ByteLen(proof) < GROTH16_PROOF_LEN THEN FALSE
    ELSE LET hash == keccak_hash(<< stake_nullifier, new_note_commitment >>
                                 \o to_le_bytes16(reward_rate_bps)
                                 \o to_le_bytes64(current_time) \o proof)
         IN  DigestByte(hash, 1) # 255

compute_proof_hash(proof_data, public_signals) ==
    keccak_hash(proof_data \o public_signals)

hash_public_signals(signals) == keccak_hash(signals)

\* the function body always answers false; exclusivity comes from `init`
is_nullifier_used(pool, nullifier) == FALSE

----------------------------------------------------------------------------
(* Account families, results and the initial state *)

accounts == << wallets, proposals, vote_records, multisigs, ms_proposals,
               pools, notes, nullifiers >>

vars == << now, wallets, proposals, vote_records, multisigs, ms_proposals,
           pools, notes, nullifiers, inserted, res, okCount, eventCount >>

Empty == << >>

\* a plausible slip: a log line written for every call, before its checks
Finish_logs_every_call(call, err, emitted) ==
    /\ res' = [call |-> call, err |-> err, events |-> emitted]
    /\ okCount' = IF err = "Ok" THEN okCount + 1 ELSE okCount
    /\ eventCount' = eventCount + 1

\* what an instruction leaves behind: its result and its emitted events
Finish(call, err, emitted) ==
    /\ res' = [call |-> call, err |-> err, events |-> emitted]
    /\ okCount' = IF err = "Ok" THEN okCount + 1 ELSE okCount
    /\ eventCount' = eventCount + Len(emitted)

Init ==
    /\ now = 0
    /\ wallets = Empty
    /\ proposals = Empty
    /\ vote_records = Empty
    /\ multisigs = Empty
    /\ ms_proposals = Empty
    /\ pools = Empty
    /\ notes = Empty
    /\ nullifiers = Empty
    /\ inserted = Empty
    /\ res = [call |-> [op |-> "none"], err |-> "Ok", events |-> << >>]
    /\ okCount = 0
    /\ eventCount = 0

\* the clock of the cluster moves forward between instructions
Times == { d * SECONDS_PER_DAY : d \in 0..MaxDays }

Tick(t) ==
    /\ t > now
    /\ now' = t
    /\ res' = [call |-> [op |-> "tick"], err |-> "Ok", events |-> << >>]
    /\ UNCHANGED << accounts, inserted, okCount, eventCount >>

----------------------------------------------------------------------------
(* Identity commitment and time-locked recovery *)

\* a plausible slip: the wallet account taken with init_if_needed
initialize_commitment_err_reinit(user, commitment) == "Ok"


\* an initialization that refuses a commitment outside the field
initialize_commitment_err_in_field(user, commitment) ==
    IF user \in DOMAIN wallets THEN "AccountInUse"
    ELSE IF ~verify_field_element(WordBytes(commitment)) THEN "InvalidPublicSignal"
    ELSE "Ok"

initialize_commitment_err(user, commitment) ==
    IF user \in DOMAIN wallets THEN "AccountInUse" ELSE "Ok"

initialize_commitment(user, commitment) ==
    LET call == [op |-> "initialize_commitment", user |-> user,
                 commitment |-> commitment]
        err  == initialize_commitment_err(user, commitment)
        wallet_account ==
            [commitment |-> commitment, owner |-> user, created_at |-> now,
             recovery_commitment |-> ZERO32, recovery_active |-> FALSE,
             recovery_initiated_at |-> 0, recovery_unlock_at |-> 0,
             recovery_executed_at |-> 0]
    IN  /\ IF err = "Ok"
           THEN /\ wallets' = wallets @@ (user :> wallet_account)
                /\ Finish(call, err, << [type |-> "CommitmentCreated", wallet |-> user,
                                         commitment |-> commitment,
                                         timestamp |-> now] >>)
           ELSE /\ UNCHANGED wallets
                /\ Finish(call, err, << >>)
        /\ UNCHANGED << now, proposals, vote_records, multisigs, ms_proposals,
                        pools, notes, nullifiers, inserted >>

\* a plausible slip: the proof not bound to the wallet's commitment
submit_proof_check_unbound(wallet_account, proof_data, public_signals) ==
    IF ByteLen(proof_data) < GROTH16_PROOF_LEN THEN "InvalidProofStructure"
    ELSE IF Len(public_signals) < 1 THEN "InvalidProof"
    ELSE IF ~(verify_field_element(WordBytes(proof_data[1]))
              /\ verify_field_element(WordBytes(proof_data[2])))
         THEN "InvalidProofPoint"
    ELSE IF ~(verify_field_element(WordBytes(proof_data[7]))
              /\ verify_field_element(WordBytes(proof_data[8])))
         THEN "InvalidProofPoint"
    ELSE IF \E i \in 1..Len(public_signals) :
                ~verify_field_element(WordBytes(public_signals[i]))
         THEN "InvalidPublicSignal"
    ELSE IF compute_proof_hash(proof_data, public_signals) = ZERO32
         THEN "InvalidProofHash"
    ELSE "Ok"

submit_proof_check(wallet_account, proof_data, public_signals) ==
    IF ByteLen(proof_data) < GROTH16_PROOF_LEN THEN "InvalidProofStructure"
    ELSE IF Len(public_signals) < 1 THEN "InvalidProof"
    ELSE IF ~(verify_field_element(WordBytes(proof_data[1]))
              /\ verify_field_element(WordBytes(proof_data[2])))
         THEN "InvalidProofPoint"
    ELSE IF ~(verify_field_element(WordBytes(proof_data[7]))
              /\ verify_field_element(WordBytes(proof_data[8])))
         THEN "InvalidProofPoint"
    ELSE IF \E i \in 1..Len(public_signals) :
                ~verify_field_element(WordBytes(public_signals[i]))
         THEN "InvalidPublicSignal"
    ELSE IF public_signals[1] # wallet_account.commitment THEN "CommitmentMismatch"
    ELSE IF compute_proof_hash(proof_data, public_signals) = ZERO32
         THEN "InvalidProofHash"
    ELSE "Ok"

submit_proof_err(wallet, user, proof_data, public_signals) ==
    IF wallet \notin DOMAIN wallets THEN "AccountNotInitialized"
    ELSE submit_proof_check(wallets[wallet], proof_data, public_signals)

submit_proof(wallet, user, proof_data, public_signals) ==
    LET call == [op |-> "submit_proof", wallet |-> wallet, user |-> user,
                 proof_data |-> proof_data, public_signals |-> public_signals]
        err  == submit_proof_err(wallet, user, proof_data, public_signals)
    IN  /\ IF err = "Ok"
           THEN Finish(call, err,
                    << [type |-> "ProofVerified", wallet |-> wallet,
                        proof_hash |-> compute_proof_hash(proof_data, public_signals),
                        public_signals_hash |-> hash_public_signals(public_signals),
                        verification_type |-> "Groth16", timestamp |-> now] >>)
           ELSE Finish(call, err, << >>)
        /\ UNCHANGED << now, accounts, inserted >>

\* a plausible slip: the timelock period not validated
initiate_recovery_err_any_days(wallet, user, recovery_commitment, timelock_days) ==
    IF wallet \notin DOMAIN wallets THEN "AccountNotInitialized"
    ELSE IF wallets[wallet].owner # user THEN "Unauthorized"
    ELSE IF wallets[wallet].recovery_active THEN "RecoveryAlreadyActive"
    ELSE "Ok"

initiate_recovery_err(wallet, user, recovery_commitment, timelock_days) ==
    IF wallet \notin DOMAIN wallets THEN "AccountNotInitialized"
    ELSE IF wallets[wallet].owner # user THEN "Unauthorized"
    ELSE IF wallets[wallet].recovery_active THEN "RecoveryAlreadyActive"
    ELSE IF ~(timelock_days >= MIN_TIMELOCK_DAYS
              /\ timelock_days <= MAX_TIMELOCK_DAYS)
         THEN "InvalidTimelockPeriod"
    ELSE "Ok"

initiate_recovery(wallet, user, recovery_commitment, timelock_days) ==
    LET call == [op |-> "initiate_recovery", wallet |-> wallet, user |-> user,
                 recovery_commitment |-> recovery_commitment,
                 timelock_days |-> timelock_days]
        err  == initiate_recovery_err(wallet, user, recovery_commitment, timelock_days)
        current_time == now
        unlock_time == current_time + timelock_days * SECONDS_PER_DAY
    IN  /\ IF err = "Ok"
           THEN /\ wallets' = [wallets EXCEPT
                       ![wallet].recovery_commitment = recovery_commitment,
                       ![wallet].recovery_initiated_at = current_time,
                       ![wallet].recovery_unlock_at = unlock_time,
                       ![wallet].recovery_active = TRUE]
                /\ Finish(call, err, << [type |-> "RecoveryInitiated", wallet |-> wallet,
                                         recovery_commitment |-> recovery_commitment,
                                         unlock_time |-> unlock_time] >>)
           ELSE /\ UNCHANGED wallets
                /\ Finish(call, err, << >>)
        /\ UNCHANGED << now, proposals, vote_records, multisigs, ms_proposals,
                        pools, notes, nullifiers, inserted >>

\* a plausible slip: the timelock comparison reversed
execute_recovery_err_reversed(wallet, user, recovery_proof) ==
    LET current_time == now
    IN  IF wallet \notin DOMAIN wallets THEN "AccountNotInitialized"
        ELSE IF ~wallets[wallet].recovery_active THEN "NoActiveRecovery"
        ELSE IF ~(current_time <= wallets[wallet].recovery_unlock_at)
             THEN "TimelockNotExpired"
        ELSE IF ~(ByteLen(recovery_proof) > 0) THEN "InvalidProof"
        ELSE "Ok"

execute_recovery_err(wallet, user, recovery_proof) ==
    LET current_time == now
    IN  IF wallet \notin DOMAIN wallets THEN "AccountNotInitialized"
        ELSE IF ~wallets[wallet].recovery_active THEN "NoActiveRecovery"
        ELSE IF ~(current_time >= wallets[wallet].recovery_unlock_at)
             THEN "TimelockNotExpired"
        ELSE IF ~(ByteLen(recovery_proof) > 0) THEN "InvalidProof"
        ELSE "Ok"

\* a recovery that installs the recovery commitment as the wallet's commitment
execute_recovery_rotates(wallet, user, recovery_proof) ==
    LET call == [op |-> "execute_recovery", wallet |-> wallet, user |-> user,
                 recovery_proof |-> recovery_proof]
        current_time == now
        err  == execute_recovery_err(wallet, user, recovery_proof)
    IN  /\ IF err = "Ok"
           THEN /\ wallets' = [wallets EXCEPT
                       ![wallet].recovery_active = FALSE,
                       ![wallet].commitment = wallets[wallet].recovery_commitment,
                       ![wallet].recovery_executed_at = current_time]
                /\ Finish(call, err, << [type |-> "RecoveryExecuted", wallet |-> wallet,
                                         timestamp |-> current_time] >>)
           ELSE /\ UNCHANGED wallets
                /\ Finish(call, err, << >>)
        /\ UNCHANGED << now, proposals, vote_records, multisigs, ms_proposals,
                        pools, notes, nullifiers, inserted >>

execute_recovery(wallet, user, recovery_proof) ==
    LET call == [op |-> "execute_recovery", wallet |-> wallet, user |-> user,
                 recovery_proof |-> recovery_proof]
        current_time == now
        err  == execute_recovery_err(wallet, user, recovery_proof)
    IN  /\ IF err = "Ok"
           THEN /\ wallets' = [wallets EXCEPT
                       ![wallet].recovery_active = FALSE,
                       ![wallet].recovery_executed_at = current_time]
                /\ Finish(call, err, << [type |-> "RecoveryExecuted", wallet |-> wallet,
                                         timestamp |-> current_time] >>)
           ELSE /\ UNCHANGED wallets
                /\ Finish(call, err, << >>)
        /\ UNCHANGED << now, proposals, vote_records, multisigs, ms_proposals,
                        pools, notes, nullifiers, inserted >>

\* a plausible slip: the owner constraint left off the account
cancel_recovery_err_anyone(wallet, user) ==
    IF wallet \notin DOMAIN wallets THEN "AccountNotInitialized"
    ELSE IF ~wallets[wallet].recovery_active THEN "NoActiveRecovery"
    ELSE "Ok"

cancel_recovery_err(wallet, user) ==
    IF wallet \notin DOMAIN wallets THEN "AccountNotInitialized"
    ELSE IF wallets[wallet].owner # user THEN "Unauthorized"
    ELSE IF ~wallets[wallet].recovery_active THEN "NoActiveRecovery"
    ELSE "Ok"

cancel_recovery(wallet, user) ==
    LET call == [op |-> "cancel_recovery", wallet |-> wallet, user |-> user]
        err  == cancel_recovery_err(wallet, user)
    IN  /\ IF err = "Ok"
           THEN /\ wallets' = [wallets EXCEPT ![wallet].recovery_active = FALSE]
                /\ Finish(call, err, << [type |-> "RecoveryCancelled", wallet |-> wallet,
                                         timestamp |-> now] >>)
           ELSE /\ UNCHANGED wallets
                /\ Finish(call, err, << >>)
        /\ UNCHANGED << now, proposals, vote_records, multisigs, ms_proposals,
                        pools, notes, nullifiers, inserted >>

----------------------------------------------------------------------------
(* Private voting: commit-reveal *)

\* a plausible slip: the reveal deadline not compared with the voting deadline
create_proposal_err_no_reveal_check(creator, proposal_id, metadata_hash, voting_ends_at, reveal_ends_at) ==
    LET key == << creator, proposal_id >>
        current_time == now
    IN  IF key \in DOMAIN proposals THEN "AccountInUse"
        ELSE IF ~(voting_ends_at > current_time) THEN "InvalidVotingPeriod"
        ELSE "Ok"

create_proposal_err(creator, proposal_id, metadata_hash, voting_ends_at, reveal_ends_at) ==
    LET key == << creator, proposal_id >>
        current_time == now
    IN  IF key \in DOMAIN proposals THEN "AccountInUse"
        ELSE IF ~(voting_ends_at > current_time) THEN "InvalidVotingPeriod"
        ELSE IF ~(reveal_ends_at > voting_ends_at) THEN "InvalidRevealPeriod"
        ELSE "Ok"

create_proposal(creator, proposal_id, metadata_hash, voting_ends_at, reveal_ends_at) ==
    LET key == << creator, proposal_id >>
        call == [op |-> "create_proposal", proposal |-> key,
                 voting_ends_at |-> voting_ends_at, reveal_ends_at |-> reveal_ends_at]
        current_time == now
        err  == create_proposal_err(creator, proposal_id, metadata_hash, voting_ends_at, reveal_ends_at)
        proposal ==
            [proposal_id |-> proposal_id, creator |-> creator,
             metadata_hash |-> metadata_hash, created_at |-> current_time,
             voting_ends_at |-> voting_ends_at, reveal_ends_at |-> reveal_ends_at,
             yes_count |-> 0, no_count |-> 0, total_commitments |-> 0,
             total_revealed |-> 0, is_finalized |-> FALSE]
    IN  /\ IF err = "Ok"
           THEN /\ proposals' = proposals @@ (key :> proposal)
                /\ Finish(call, err, << [type |-> "ProposalCreated", proposal |-> key,
                                         proposal_id |-> proposal_id, creator |-> creator,
                                         voting_ends_at |-> voting_ends_at,
                                         reveal_ends_at |-> reveal_ends_at] >>)
           ELSE /\ UNCHANGED proposals
                /\ Finish(call, err, << >>)
        /\ UNCHANGED << now, wallets, vote_records, multisigs, ms_proposals,
                        pools, notes, nullifiers, inserted >>

\* a VoteRecord as `init` hands it to the handler: zero-filled
FreshVoteRecord ==
    [proposal |-> << >>, voter |-> "", commitment |-> ZERO32, has_voted |-> FALSE,
     has_revealed |-> FALSE, revealed_choice |-> FALSE, voted_at |-> 0,
     revealed_at |-> 0]

\* a plausible slip: the vote record taken with init_if_needed and has_voted not
\* consulted
cast_vote_err_reopen(proposal, voter, vote_commitment) ==
    LET key == << proposal, voter >>
        current_time == now
    IN  IF proposal \notin DOMAIN proposals THEN "AccountNotInitialized"
        ELSE IF ~(current_time < proposals[proposal].voting_ends_at)
             THEN "VotingEnded"
        ELSE "Ok"


\* cast_vote's checks without the voting deadline
cast_vote_err_no_deadline(proposal, voter, vote_commitment) ==
    LET key == << proposal, voter >>
    IN  IF proposal \notin DOMAIN proposals THEN "AccountNotInitialized"
        ELSE IF key \in DOMAIN vote_records THEN "AccountInUse"
        ELSE IF FreshVoteRecord.has_voted THEN "AlreadyVoted"
        ELSE "Ok"

cast_vote_err(proposal, voter, vote_commitment) ==
    LET key == << proposal, voter >>
        current_time == now
    IN  IF proposal \notin DOMAIN proposals THEN "AccountNotInitialized"
        ELSE IF key \in DOMAIN vote_records THEN "AccountInUse"
        ELSE IF ~(current_time < proposals[proposal].voting_ends_at)
             THEN "VotingEnded"
        ELSE IF FreshVoteRecord.has_voted THEN "AlreadyVoted"
        ELSE "Ok"

cast_vote(proposal, voter, vote_commitment) ==
    LET key == << proposal, voter >>
        call == [op |-> "cast_vote", proposal |-> proposal, voter |-> voter,
                 vote_commitment |-> vote_commitment]
        current_time == now
        err  == cast_vote_err(proposal, voter, vote_commitment)
        vote_record ==
            [FreshVoteRecord EXCEPT !.proposal = proposal, !.voter = voter,
                                    !.commitment = vote_commitment,
                                    !.has_voted = TRUE, !.has_revealed = FALSE,
                                    !.voted_at = current_time]
    IN  /\ IF err = "Ok"
           THEN /\ vote_records' = vote_records @@ (key :> vote_record)
                /\ proposals' = [proposals EXCEPT ![proposal].total_commitments = @ + 1]
                /\ Finish(call, err, << [type |-> "VoteCast", proposal |-> proposal,
                                         voter |-> voter, commitment |-> vote_commitment,
                                         timestamp |-> current_time] >>)
           ELSE /\ UNCHANGED << vote_records, proposals >>
                /\ Finish(call, err, << >>)
        /\ UNCHANGED << now, wallets, multisigs, ms_proposals,
                        pools, notes, nullifiers, inserted >>

\* a plausible slip: the else branch lost, no_count incremented on every reveal
count_vote_no_else(proposal, vote_choice) ==
    [proposal EXCEPT !.total_revealed = @ + 1,
                     !.yes_count = IF vote_choice THEN @ + 1 ELSE @,
                     !.no_count = @ + 1]

\* the tally update of reveal_vote
count_vote(proposal, vote_choice) ==
    [proposal EXCEPT !.total_revealed = @ + 1,
                     !.yes_count = IF vote_choice THEN @ + 1 ELSE @,
                     !.no_count = IF vote_choice THEN @ ELSE @ + 1]

\* a plausible slip: the reveal window closed with <= instead of <
reveal_vote_err_late(proposal, voter, vote_choice, secret) ==
    LET key == << proposal, voter >>
        current_time == now
    IN  IF proposal \notin DOMAIN proposals THEN "AccountNotInitialized"
        ELSE IF key \notin DOMAIN vote_records THEN "AccountNotInitialized"
        ELSE IF vote_records[key].voter # voter THEN "Unauthorized"
        ELSE IF ~(current_time >= proposals[proposal].voting_ends_at)
             THEN "VotingNotEnded"
        ELSE IF ~(current_time <= proposals[proposal].reveal_ends_at)
             THEN "RevealEnded"
        ELSE IF ~vote_records[key].has_voted THEN "NotVoted"
        ELSE IF vote_records[key].has_revealed THEN "AlreadyRevealed"
        ELSE IF vote_records[key].commitment
                    # compute_vote_commitment(vote_choice, secret, voter)
             THEN "InvalidVoteReveal"
        ELSE "Ok"


\* reveal_vote's checks without the has_revealed guard
reveal_vote_err_again(proposal, voter, vote_choice, secret) ==
    LET key == << proposal, voter >>
        current_time == now
    IN  IF proposal \notin DOMAIN proposals THEN "AccountNotInitialized"
        ELSE IF key \notin DOMAIN vote_records THEN "AccountNotInitialized"
        ELSE IF vote_records[key].voter # voter THEN "Unauthorized"
        ELSE IF ~(current_time >= proposals[proposal].voting_ends_at)
             THEN "VotingNotEnded"
        ELSE IF ~(current_time < proposals[proposal].reveal_ends_at)
             THEN "RevealEnded"
        ELSE IF ~vote_records[key].has_voted THEN "NotVoted"
        ELSE IF vote_records[key].commitment
                    # compute_vote_commitment(vote_choice, secret, voter)
             THEN "InvalidVoteReveal"
        ELSE "Ok"

reveal_vote_err(proposal, voter, vote_choice, secret) ==
    LET key == << proposal, voter >>
        current_time == now
    IN  IF proposal \notin DOMAIN proposals THEN "AccountNotInitialized"
        ELSE IF key \notin DOMAIN vote_records THEN "AccountNotInitialized"
        ELSE IF vote_records[key].voter # voter THEN "Unauthorized"
        ELSE IF ~(current_time >= proposals[proposal].voting_ends_at)
             THEN "VotingNotEnded"
        ELSE IF ~(current_time < proposals[proposal].reveal_ends_at)
             THEN "RevealEnded"
        ELSE IF ~vote_records[key].has_voted THEN "NotVoted"
        ELSE IF vote_records[key].has_revealed THEN "AlreadyRevealed"
        ELSE IF vote_records[key].commitment
                    # compute_vote_commitment(vote_choice, secret, voter)
             THEN "InvalidVoteReveal"
        ELSE "Ok"

\* a reveal whose event also carries the revealed choice
reveal_vote_announces_choice(proposal, voter, vote_choice, secret) ==
    LET key == << proposal, voter >>
        call == [op |-> "reveal_vote", proposal |-> proposal, voter |-> voter,
                 vote_choice |-> vote_choice, secret |-> secret]
        current_time == now
        err  == reveal_vote_err(proposal, voter, vote_choice, secret)
    IN  /\ IF err = "Ok"
           THEN /\ vote_records' = [vote_records EXCEPT
                       ![key].has_revealed = TRUE,
                       ![key].revealed_choice = vote_choice,
                       ![key].revealed_at = current_time]
                /\ proposals' = [proposals EXCEPT ![proposal] = count_vote(@, vote_choice)]
                /\ Finish(call, err, << [type |-> "VoteRevealed", proposal |-> proposal,
                                         voter |-> voter, timestamp |-> current_time,
                                         vote_choice |-> vote_choice] >>)
           ELSE /\ UNCHANGED << vote_records, proposals >>
                /\ Finish(call, err, << >>)
        /\ UNCHANGED << now, wallets, multisigs, ms_proposals,
                        pools, notes, nullifiers, inserted >>

reveal_vote(proposal, voter, vote_choice, secret) ==
    LET key == << proposal, voter >>
        call == [op |-> "reveal_vote", proposal |-> proposal, voter |-> voter,
                 vote_choice |-> vote_choice, secret |-> secret]
        current_time == now
        err  == reveal_vote_err(proposal, voter, vote_choice, secret)
    IN  /\ IF err = "Ok"
           THEN /\ vote_records' = [vote_records EXCEPT
                       ![key].has_revealed = TRUE,
                       ![key].revealed_choice = vote_choice,
                       ![key].revealed_at = current_time]
                /\ proposals' = [proposals EXCEPT ![proposal] = count_vote(@, vote_choice)]
                /\ Finish(call, err, << [type |-> "VoteRevealed", proposal |-> proposal,
                                         voter |-> voter, timestamp |-> current_time] >>)
           ELSE /\ UNCHANGED << vote_records, proposals >>
                /\ Finish(call, err, << >>)
        /\ UNCHANGED << now, wallets, multisigs, ms_proposals,
                        pools, notes, nullifiers, inserted >>

\* a plausible slip: the end of the reveal phase not awaited
finalize_proposal_err_early(proposal, authority) ==
    LET current_time == now
    IN  IF proposal \notin DOMAIN proposals THEN "AccountNotInitialized"
        ELSE IF proposals[proposal].is_finalized THEN "AlreadyFinalized"
        ELSE "Ok"


\* a finalization that waits for every committed vote to be revealed
finalize_proposal_err_needs_all_reveals(proposal, authority) ==
    LET current_time == now
    IN  IF proposal \notin DOMAIN proposals THEN "AccountNotInitialized"
        ELSE IF ~(current_time >= proposals[proposal].reveal_ends_at)
             THEN "RevealNotEnded"
        ELSE IF proposals[proposal].is_finalized THEN "AlreadyFinalized"
        ELSE IF proposals[proposal].total_revealed < proposals[proposal].total_commitments
             THEN "RevealNotEnded"
        ELSE "Ok"

finalize_proposal_err(proposal, authority) ==
    LET current_time == now
    IN  IF proposal \notin DOMAIN proposals THEN "AccountNotInitialized"
        ELSE IF ~(current_time >= proposals[proposal].reveal_ends_at)
             THEN "RevealNotEnded"
        ELSE IF proposals[proposal].is_finalized THEN "AlreadyFinalized"
        ELSE "Ok"

finalize_proposal(proposal, authority) ==
    LET call == [op |-> "finalize_proposal", proposal |-> proposal,
                 authority |-> authority]
        current_time == now
        err  == finalize_proposal_err(proposal, authority)
    IN  /\ IF err = "Ok"
           THEN /\ proposals' = [proposals EXCEPT ![proposal].is_finalized = TRUE]
                /\ Finish(call, err,
                       << [type |-> "ProposalFinalized", proposal |-> proposal,
                           yes_count |-> proposals[proposal].yes_count,
                           no_count |-> proposals[proposal].no_count,
                           total_votes |-> proposals[proposal].total_revealed,
                           timestamp |-> current_time] >>)
           ELSE /\ UNCHANGED proposals
                /\ Finish(call, err, << >>)
        /\ UNCHANGED << now, wallets, vote_records, multisigs, ms_proposals,
                        pools, notes, nullifiers, inserted >>

----------------------------------------------------------------------------
(* Stealth multisig *)

\* a fixed array [[u8; 32]; MAX_MULTISIG_SIGNERS], zero-filled
ZeroSlots == [i \in 1..MAX_MULTISIG_SIGNERS |-> ZERO32]

create_multisig_err(creator, vault_id, threshold, signer_commitments) ==
    LET key == << creator, vault_id >>
        current_time == now
    IN  IF key \in DOMAIN multisigs THEN "AccountInUse"
        ELSE IF ~(threshold > 0) THEN "InvalidThreshold"
        ELSE IF ~(Len(signer_commitments) >= threshold) THEN "InvalidThreshold"
        ELSE IF ~(Len(signer_commitments) <= MAX_MULTISIG_SIGNERS)
             THEN "TooManySigners"
        ELSE "Ok"

create_multisig(creator, vault_id, threshold, signer_commitments) ==
    LET key == << creator, vault_id >>
        call == [op |-> "create_multisig", multisig |-> key, threshold |-> threshold,
                 signer_commitments |-> signer_commitments]
        current_time == now
        err  == create_multisig_err(creator, vault_id, threshold, signer_commitments)
        multisig ==
            [vault_id |-> vault_id, creator |-> creator, threshold |-> threshold,
             total_signers |-> Len(signer_commitments), created_at |-> current_time,
             proposal_count |-> 0,
             signer_commitments |->
                 [i \in 1..MAX_MULTISIG_SIGNERS |->
                     IF i <= Len(signer_commitments) THEN signer_commitments[i]
                                                     ELSE ZERO32]]
    IN  /\ IF err = "Ok"
           THEN /\ multisigs' = multisigs @@ (key :> multisig)
                /\ Finish(call, err, << [type |-> "MultisigCreated", multisig |-> key,
                                         vault_id |-> vault_id, threshold |-> threshold,
                                         total_signers |-> Len(signer_commitments),
                                         timestamp |-> current_time] >>)
           ELSE /\ UNCHANGED multisigs
                /\ Finish(call, err, << >>)
        /\ UNCHANGED << now, wallets, proposals, vote_records, ms_proposals,
                        pools, notes, nullifiers, inserted >>

create_multisig_proposal_err(multisig, proposer, proposal_id, instruction_hash) ==
    LET key == << multisig, proposal_id >>
        current_time == now
    IN  IF multisig \notin DOMAIN multisigs THEN "AccountNotInitialized"
        ELSE IF key \in DOMAIN ms_proposals THEN "AccountInUse"
        ELSE "Ok"

create_multisig_proposal(multisig, proposer, proposal_id, instruction_hash) ==
    LET key == << multisig, proposal_id >>
        call == [op |-> "create_multisig_proposal", multisig |-> multisig,
                 proposal |-> key, proposer |-> proposer]
        current_time == now
        err  == create_multisig_proposal_err(multisig, proposer, proposal_id, instruction_hash)
        proposal ==
            [multisig |-> multisig, proposal_id |-> proposal_id,
             instruction_hash |-> instruction_hash, created_at |-> current_time,
             approval_count |-> 0, is_executed |-> FALSE, executed_at |-> 0,
             approval_commitments |-> ZeroSlots]
    IN  /\ IF err = "Ok"
           THEN /\ ms_proposals' = ms_proposals @@ (key :> proposal)
                /\ multisigs' = [multisigs EXCEPT ![multisig].proposal_count = @ + 1]
                /\ Finish(call, err,
                       << [type |-> "MultisigProposalCreated", multisig |-> multisig,
                           proposal |-> key, proposal_id |-> proposal_id,
                           instruction_hash |-> instruction_hash,
                           timestamp |-> current_time] >>)
           ELSE /\ UNCHANGED << ms_proposals, multisigs >>
                /\ Finish(call, err, << >>)
        /\ UNCHANGED << now, wallets, proposals, vote_records,
                        pools, notes, nullifiers, inserted >>

\* a plausible slip: approvals accepted beyond the threshold
stealth_sign_err_no_cap(multisig, proposal_id, signer, signer_proof, approval_commitment) ==
    LET key == << multisig, proposal_id >>
        current_time == now
    IN  IF multisig \notin DOMAIN multisigs THEN "AccountNotInitialized"
        ELSE IF key \notin DOMAIN ms_proposals THEN "AccountNotInitialized"
        ELSE IF ms_proposals[key].multisig # multisig THEN "Unauthorized"
        ELSE IF ms_proposals[key].is_executed THEN "ProposalAlreadyExecuted"
        ELSE IF signer_proof = ZERO32 THEN "InvalidSignerProof"
        ELSE IF \E i \in 1..ms_proposals[key].approval_count :
                    ms_proposals[key].approval_commitments[i] = approval_commitment
             THEN "DuplicateApproval"
        ELSE "Ok"

\* a plausible slip: the stored approvals not searched for the new commitment
stealth_sign_err_no_dedup(multisig, proposal_id, signer, signer_proof, approval_commitment) ==
    LET key == << multisig, proposal_id >>
        current_time == now
    IN  IF multisig \notin DOMAIN multisigs THEN "AccountNotInitialized"
        ELSE IF key \notin DOMAIN ms_proposals THEN "AccountNotInitialized"
        ELSE IF ms_proposals[key].multisig # multisig THEN "Unauthorized"
        ELSE IF ms_proposals[key].is_executed THEN "ProposalAlreadyExecuted"
        ELSE IF ~(ms_proposals[key].approval_count < multisigs[multisig].threshold)
             THEN "ThresholdReached"
        ELSE IF signer_proof = ZERO32 THEN "InvalidSignerProof"
        ELSE "Ok"


\* a plausible slip: the threshold comparison inclusive, admitting one approval
\* more than the threshold
stealth_sign_err_inclusive_cap(multisig, proposal_id, signer, signer_proof, approval_commitment) ==
    LET key == << multisig, proposal_id >>
    IN  IF multisig \notin DOMAIN multisigs THEN "AccountNotInitialized"
        ELSE IF key \notin DOMAIN ms_proposals THEN "AccountNotInitialized"
        ELSE IF ms_proposals[key].multisig # multisig THEN "Unauthorized"
        ELSE IF ms_proposals[key].is_executed THEN "ProposalAlreadyExecuted"
        ELSE IF ~(ms_proposals[key].approval_count <= multisigs[multisig].threshold)
             THEN "ThresholdReached"
        ELSE IF signer_proof = ZERO32 THEN "InvalidSignerProof"
        ELSE IF \E i \in 1..ms_proposals[key].approval_count :
                    ms_proposals[key].approval_commitments[i] = approval_commitment
             THEN "DuplicateApproval"
        ELSE "Ok"

stealth_sign_err(multisig, proposal_id, signer, signer_proof, approval_commitment) ==
    LET key == << multisig, proposal_id >>
        current_time == now
    IN  IF multisig \notin DOMAIN multisigs THEN "AccountNotInitialized"
        ELSE IF key \notin DOMAIN ms_proposals THEN "AccountNotInitialized"
        ELSE IF ms_proposals[key].multisig # multisig THEN "Unauthorized"
        ELSE IF ms_proposals[key].is_executed THEN "ProposalAlreadyExecuted"
        ELSE IF ~(ms_proposals[key].approval_count < multisigs[multisig].threshold)
             THEN "ThresholdReached"
        ELSE IF signer_proof = ZERO32 THEN "InvalidSignerProof"
        ELSE IF \E i \in 1..ms_proposals[key].approval_count :
                    ms_proposals[key].approval_commitments[i] = approval_commitment
             THEN "DuplicateApproval"
        ELSE "Ok"

stealth_sign(multisig, proposal_id, signer, signer_proof, approval_commitment) ==
    LET key == << multisig, proposal_id >>
        call == [op |-> "stealth_sign", multisig |-> multisig, proposal |-> key,
                 signer |-> signer, signer_proof |-> signer_proof,
                 approval_commitment |-> approval_commitment]
        current_time == now
        err  == stealth_sign_err(multisig, proposal_id, signer, signer_proof, approval_commitment)
    IN  /\ IF err = "Ok"
           THEN /\ ms_proposals' = [ms_proposals EXCEPT
                       ![key].approval_commitments[ms_proposals[key].approval_count + 1]
                            = approval_commitment,
                       ![key].approval_count = @ + 1]
                /\ Finish(call, err,
                       << [type |-> "StealthSignatureAdded", proposal |-> key,
                           approval_commitment |-> approval_commitment,
                           current_approvals |-> ms_proposals[key].approval_count + 1,
                           threshold |-> multisigs[multisig].threshold,
                           timestamp |-> current_time] >>)
           ELSE /\ UNCHANGED ms_proposals
                /\ Finish(call, err, << >>)
        /\ UNCHANGED << now, wallets, proposals, vote_records, multisigs,
                        pools, notes, nullifiers, inserted >>

\* a plausible slip: the threshold comparison off by one
execute_multisig_proposal_err_off_by_one(multisig, proposal_id, executor) ==
    LET key == << multisig, proposal_id >>
    IN  IF multisig \notin DOMAIN multisigs THEN "AccountNotInitialized"
        ELSE IF key \notin DOMAIN ms_proposals THEN "AccountNotInitialized"
        ELSE IF ms_proposals[key].multisig # multisig THEN "Unauthorized"
        ELSE IF ms_proposals[key].is_executed THEN "ProposalAlreadyExecuted"
        ELSE IF ~(ms_proposals[key].approval_count + 1 >= multisigs[multisig].threshold)
             THEN "InsufficientApprovals"
        ELSE "Ok"

\* a plausible slip: the is_executed guard left out
execute_multisig_proposal_err_no_guard(multisig, proposal_id, executor) ==
    LET key == << multisig, proposal_id >>
    IN  IF multisig \notin DOMAIN multisigs THEN "AccountNotInitialized"
        ELSE IF key \notin DOMAIN ms_proposals THEN "AccountNotInitialized"
        ELSE IF ms_proposals[key].multisig # multisig THEN "Unauthorized"
        ELSE IF ~(ms_proposals[key].approval_count >= multisigs[multisig].threshold)
             THEN "InsufficientApprovals"
        ELSE "Ok"

execute_multisig_proposal_err(multisig, proposal_id, executor) ==
    LET key == << multisig, proposal_id >>
        current_time == now
    IN  IF multisig \notin DOMAIN multisigs THEN "AccountNotInitialized"
        ELSE IF key \notin DOMAIN ms_proposals THEN "AccountNotInitialized"
        ELSE IF ms_proposals[key].multisig # multisig THEN "Unauthorized"
        ELSE IF ms_proposals[key].is_executed THEN "ProposalAlreadyExecuted"
        ELSE IF ~(ms_proposals[key].approval_count >= multisigs[multisig].threshold)
             THEN "InsufficientApprovals"
        ELSE "Ok"

execute_multisig_proposal(multisig, proposal_id, executor) ==
    LET key == << multisig, proposal_id >>
        call == [op |-> "execute_multisig_proposal", multisig |-> multisig,
                 proposal |-> key, executor |-> executor]
        current_time == now
        err  == execute_multisig_proposal_err(multisig, proposal_id, executor)
    IN  /\ IF err = "Ok"
           THEN /\ ms_proposals' = [ms_proposals EXCEPT
                       ![key].is_executed = TRUE,
                       ![key].executed_at = current_time]
                /\ Finish(call, err,
                       << [type |-> "MultisigProposalExecuted", multisig |-> multisig,
                           proposal |-> key,
                           approval_count |-> ms_proposals[key].approval_count,
                           timestamp |-> current_time] >>)
           ELSE /\ UNCHANGED ms_proposals
                /\ Finish(call, err, << >>)
        /\ UNCHANGED << now, wallets, proposals, vote_records, multisigs,
                        pools, notes, nullifiers, inserted >>

----------------------------------------------------------------------------
(* Shielded pool *)


\* create_shielded_pool's checks without the lockup-period requirement.
create_shielded_pool_err_any_lockup(creator, pool_id, reward_rate_bps, lockup_epochs) ==
    LET key == << creator, pool_id >>
    IN  IF key \in DOMAIN pools THEN "AccountInUse"
        ELSE IF ~(reward_rate_bps <= MAX_REWARD_RATE_BPS) THEN "InvalidRewardRate"
        ELSE "Ok"

create_shielded_pool_err(creator, pool_id, reward_rate_bps, lockup_epochs) ==
    LET key == << creator, pool_id >>
        current_time == now
    IN  IF key \in DOMAIN pools THEN "AccountInUse"
        ELSE IF ~(reward_rate_bps <= MAX_REWARD_RATE_BPS) THEN "InvalidRewardRate"
        ELSE IF ~(lockup_epochs >= 1 /\ lockup_epochs <= MAX_LOCKUP_EPOCHS)
             THEN "InvalidLockupPeriod"
        ELSE "Ok"

create_shielded_pool(creator, pool_id, reward_rate_bps, lockup_epochs) ==
    LET key == << creator, pool_id >>
        call == [op |-> "create_shielded_pool", pool |-> key,
                 reward_rate_bps |-> reward_rate_bps, lockup_epochs |-> lockup_epochs]
        current_time == now
        err  == create_shielded_pool_err(creator, pool_id, reward_rate_bps, lockup_epochs)
        pool ==
            [pool_id |-> pool_id, creator |-> creator,
             reward_rate_bps |-> reward_rate_bps, lockup_epochs |-> lockup_epochs,
             merkle_root |-> ZERO32, next_note_index |-> 0, total_notes |-> 0,
             created_at |-> current_time, is_active |-> TRUE, nullifier_count |-> 0]
    IN  /\ IF err = "Ok"
           THEN /\ pools' = pools @@ (key :> pool)
                /\ inserted' = inserted @@ (key :> << >>)
                /\ Finish(call, err,
                       << [type |-> "ShieldedPoolCreated", pool |-> key,
                           pool_id |-> pool_id, creator |-> creator,
                           reward_rate_bps |-> reward_rate_bps,
                           lockup_epochs |-> lockup_epochs,
                           timestamp |-> current_time] >>)
           ELSE /\ UNCHANGED << pools, inserted >>
                /\ Finish(call, err, << >>)
        /\ UNCHANGED << now, wallets, proposals, vote_records, multisigs,
                        ms_proposals, notes, nullifiers >>


\* shield_deposit's checks without the capacity requirement.
shield_deposit_err_no_capacity(pool, depositor, note_commitment, encrypted_note, range_proof) ==
    IF pool \notin DOMAIN pools THEN "AccountNotInitialized"
    ELSE IF << pool, pools[pool].next_note_index >> \in DOMAIN notes
         THEN "AccountInUse"
    ELSE IF ~pools[pool].is_active THEN "PoolNotActive"
    ELSE IF ~(ByteLen(range_proof) >= MIN_RANGE_PROOF_LEN)
         THEN "InvalidRangeProof"
    ELSE IF ~verify_range_proof(note_commitment, range_proof)
         THEN "InvalidRangeProof"
    ELSE "Ok"

shield_deposit_err(pool, depositor, note_commitment, encrypted_note, range_proof) ==
    LET current_time == now
    IN  IF pool \notin DOMAIN pools THEN "AccountNotInitialized"
        ELSE IF << pool, pools[pool].next_note_index >> \in DOMAIN notes
             THEN "AccountInUse"
        ELSE IF ~pools[pool].is_active THEN "PoolNotActive"
        ELSE IF ~(pools[pool].next_note_index < MAX_SHIELDED_NOTES)
             THEN "PoolFull"
        ELSE IF ~(ByteLen(range_proof) >= MIN_RANGE_PROOF_LEN)
             THEN "InvalidRangeProof"
        ELSE IF ~verify_range_proof(note_commitment, range_proof)
             THEN "InvalidRangeProof"
        ELSE "Ok"

\* a deposit that stores its note without counting it
shield_deposit_uncounted(pool, depositor, note_commitment, encrypted_note, range_proof) ==
    LET call == [op |-> "shield_deposit", pool |-> pool, depositor |-> depositor,
                 note_commitment |-> note_commitment,
                 encrypted_note |-> encrypted_note, range_proof |-> range_proof]
        current_time == now
        err  == shield_deposit_err(pool, depositor, note_commitment, encrypted_note, range_proof)
    IN  /\ IF err = "Ok"
           THEN LET note_index == pools[pool].next_note_index
                    note_account ==
                        [pool |-> pool, commitment |-> note_commitment,
                         encrypted_data |-> encrypted_note, note_index |-> note_index,
                         created_at |-> current_time,
                         unlock_at |-> current_time
                                       + pools[pool].lockup_epochs * SECONDS_PER_EPOCH,
                         is_spent |-> FALSE]
                    new_root == insert_note_to_merkle_tree(pools[pool].merkle_root,
                                                           note_commitment, note_index)
                IN  /\ notes' = notes @@ (<< pool, note_index >> :> note_account)
                    /\ pools' = [pools EXCEPT ![pool].merkle_root = new_root,
                                              ![pool].next_note_index = @ + 1]
                    /\ inserted' = [inserted EXCEPT ![pool] = Append(@, << note_commitment, note_index >>)]
                    /\ Finish(call, err,
                           << [type |-> "ShieldedDeposit", pool |-> pool,
                               note_commitment |-> note_commitment,
                               note_index |-> note_index, merkle_root |-> new_root,
                               timestamp |-> current_time] >>)
           ELSE /\ UNCHANGED << notes, pools, inserted >>
                /\ Finish(call, err, << >>)
        /\ UNCHANGED << now, wallets, proposals, vote_records, multisigs,
                        ms_proposals, nullifiers >>

shield_deposit(pool, depositor, note_commitment, encrypted_note, range_proof) ==
    LET call == [op |-> "shield_deposit", pool |-> pool, depositor |-> depositor,
                 note_commitment |-> note_commitment,
                 encrypted_note |-> encrypted_note, range_proof |-> range_proof]
        current_time == now
        err  == shield_deposit_err(pool, depositor, note_commitment, encrypted_note, range_proof)
    IN  /\ IF err = "Ok"
           THEN LET note_index == pools[pool].next_note_index
                    note_account ==
                        [pool |-> pool, commitment |-> note_commitment,
                         encrypted_data |-> encrypted_note, note_index |-> note_index,
                         created_at |-> current_time,
                         unlock_at |-> current_time
                                       + pools[pool].lockup_epochs * SECONDS_PER_EPOCH,
                         is_spent |-> FALSE]
                    new_root == insert_note_to_merkle_tree(pools[pool].merkle_root,
                                                           note_commitment, note_index)
                IN  /\ notes' = notes @@ (<< pool, note_index >> :> note_account)
                    /\ pools' = [pools EXCEPT ![pool].merkle_root = new_root,
                                              ![pool].next_note_index = @ + 1,
                                              ![pool].total_notes = @ + 1]
                    /\ inserted' = [inserted EXCEPT ![pool] = Append(@, << note_commitment, note_index >>)]
                    /\ Finish(call, err,
                           << [type |-> "ShieldedDeposit", pool |-> pool,
                               note_commitment |-> note_commitment,
                               note_index |-> note_index, merkle_root |-> new_root,
                               timestamp |-> current_time] >>)
           ELSE /\ UNCHANGED << notes, pools, inserted >>
                /\ Finish(call, err, << >>)
        /\ UNCHANGED << now, wallets, proposals, vote_records, multisigs,
                        ms_proposals, nullifiers >>

\* a plausible slip: the nullifier account taken with init_if_needed, leaving the
\* check to is_nullifier_used
shield_withdraw_err_no_init(pool, withdrawer, nullifier, merkle_proof, merkle_path_indices, withdrawal_proof, output_commitment) ==
    LET current_time == now
    IN  IF pool \notin DOMAIN pools THEN "AccountNotInitialized"
        ELSE IF ~pools[pool].is_active THEN "PoolNotActive"
        ELSE IF is_nullifier_used(pools[pool], nullifier)
             THEN "NullifierAlreadyUsed"
        ELSE IF ~verify_merkle_proof(pools[pool].merkle_root, merkle_proof,
                                     merkle_path_indices, nullifier)
             THEN "InvalidMerkleProof"
        ELSE IF ~(ByteLen(withdrawal_proof) >= GROTH16_PROOF_LEN)
             THEN "InvalidWithdrawalProof"
        ELSE IF ~verify_withdrawal_proof(nullifier, output_commitment,
                                         pools[pool].merkle_root, withdrawal_proof)
             THEN "InvalidWithdrawalProof"
        ELSE "Ok"

shield_withdraw_err(pool, withdrawer, nullifier, merkle_proof, merkle_path_indices, withdrawal_proof, output_commitment) ==
    LET current_time == now
    IN  IF pool \notin DOMAIN pools THEN "AccountNotInitialized"
        ELSE IF << pool, nullifier >> \in DOMAIN nullifiers THEN "AccountInUse"
        ELSE IF ~pools[pool].is_active THEN "PoolNotActive"
        ELSE IF is_nullifier_used(pools[pool], nullifier)
             THEN "NullifierAlreadyUsed"
        ELSE IF ~verify_merkle_proof(pools[pool].merkle_root, merkle_proof,
                                     merkle_path_indices, nullifier)
             THEN "InvalidMerkleProof"
        ELSE IF ~(ByteLen(withdrawal_proof) >= GROTH16_PROOF_LEN)
             THEN "InvalidWithdrawalProof"
        ELSE IF ~verify_withdrawal_proof(nullifier, output_commitment,
                                         pools[pool].merkle_root, withdrawal_proof)
             THEN "InvalidWithdrawalProof"
        ELSE "Ok"

\* a plausible slip: the nullifier counted before the withdrawal proof is checked,
\* the count surviving the failure
shield_withdraw_early_count(pool, withdrawer, nullifier, merkle_proof, merkle_path_indices, withdrawal_proof, output_commitment) ==
    LET call == [op |-> "shield_withdraw", pool |-> pool, withdrawer |-> withdrawer,
                 nullifier |-> nullifier, merkle_proof |-> merkle_proof,
                 merkle_path_indices |-> merkle_path_indices,
                 proof |-> withdrawal_proof, output_commitment |-> output_commitment]
        current_time == now
        err  == shield_withdraw_err(pool, withdrawer, nullifier, merkle_proof, merkle_path_indices, withdrawal_proof, output_commitment)
    IN  /\ IF err = "Ok"
           THEN LET nullifier_account ==
                        [pool |-> pool, nullifier |-> nullifier,
                         spent_at |-> current_time]
                    new_root ==
                        IF output_commitment # ZERO32
                        THEN insert_note_to_merkle_tree(pools[pool].merkle_root,
                                 output_commitment, pools[pool].next_note_index)
                        ELSE pools[pool].merkle_root
                IN  /\ nullifiers' = nullifiers @@ (<< pool, nullifier >> :> nullifier_account)
                    /\ pools' = [pools EXCEPT
                           ![pool].nullifier_count = @ + 1,
                           ![pool].merkle_root = new_root,
                           ![pool].next_note_index =
                               IF output_commitment # ZERO32 THEN @ + 1 ELSE @]
                    /\ inserted' = [inserted EXCEPT ![pool] =
                           IF output_commitment # ZERO32
                           THEN Append(@, << output_commitment, pools[pool].next_note_index >>)
                           ELSE @]
                    /\ Finish(call, err,
                           << [type |-> "ShieldedWithdraw", pool |-> pool,
                               nullifier |-> nullifier,
                               output_commitment |-> output_commitment,
                               merkle_root |-> new_root,
                               timestamp |-> current_time] >>)
           ELSE /\ pools' = IF err = "InvalidWithdrawalProof"
                           THEN [pools EXCEPT ![pool].nullifier_count = @ + 1]
                           ELSE pools
                /\ UNCHANGED << nullifiers, inserted >>
                /\ Finish(call, err, << >>)
        /\ UNCHANGED << now, wallets, proposals, vote_records, multisigs,
                        ms_proposals, notes >>

\* a withdrawal that inserts its output commitment even when it is all zero
shield_withdraw_always_inserts(pool, withdrawer, nullifier, merkle_proof, merkle_path_indices, withdrawal_proof, output_commitment) ==
    LET call == [op |-> "shield_withdraw", pool |-> pool, withdrawer |-> withdrawer,
                 nullifier |-> nullifier, merkle_proof |-> merkle_proof,
                 merkle_path_indices |-> merkle_path_indices,
                 proof |-> withdrawal_proof, output_commitment |-> output_commitment]
        current_time == now
        err  == shield_withdraw_err(pool, withdrawer, nullifier, merkle_proof, merkle_path_indices, withdrawal_proof, output_commitment)
    IN  /\ IF err = "Ok"
           THEN LET nullifier_account ==
                        [pool |-> pool, nullifier |-> nullifier,
                         spent_at |-> current_time]
                    new_root ==
                        insert_note_to_merkle_tree(pools[pool].merkle_root,
                            output_commitment, pools[pool].next_note_index)
                IN  /\ nullifiers' = nullifiers @@ (<< pool, nullifier >> :> nullifier_account)
                    /\ pools' = [pools EXCEPT
                           ![pool].nullifier_count = @ + 1,
                           ![pool].merkle_root = new_root,
                           ![pool].next_note_index = @ + 1]
                    /\ inserted' = [inserted EXCEPT ![pool] =
                           Append(@, << output_commitment, pools[pool].next_note_index >>)]
                    /\ Finish(call, err,
                           << [type |-> "ShieldedWithdraw", pool |-> pool,
                               nullifier |-> nullifier,
                               output_commitment |-> output_commitment,
                               merkle_root |-> new_root,
                               timestamp |-> current_time] >>)
           ELSE /\ UNCHANGED << nullifiers, pools, inserted >>
                /\ Finish(call, err, << >>)
        /\ UNCHANGED << now, wallets, proposals, vote_records, multisigs,
                        ms_proposals, notes >>

\* a withdrawal that marks the pool's notes as spent
shield_withdraw_marks_spent(pool, withdrawer, nullifier, merkle_proof, merkle_path_indices, withdrawal_proof, output_commitment) ==
    LET call == [op |-> "shield_withdraw", pool |-> pool, withdrawer |-> withdrawer,
                 nullifier |-> nullifier, merkle_proof |-> merkle_proof,
                 merkle_path_indices |-> merkle_path_indices,
                 proof |-> withdrawal_proof, output_commitment |-> output_commitment]
        current_time == now
        err  == shield_withdraw_err(pool, withdrawer, nullifier, merkle_proof, merkle_path_indices, withdrawal_proof, output_commitment)
    IN  /\ IF err = "Ok"
           THEN LET nullifier_account ==
                        [pool |-> pool, nullifier |-> nullifier,
                         spent_at |-> current_time]
                    new_root ==
                        IF output_commitment # ZERO32
                        THEN insert_note_to_merkle_tree(pools[pool].merkle_root,
                                 output_commitment, pools[pool].next_note_index)
                        ELSE pools[pool].merkle_root
                IN  /\ nullifiers' = nullifiers @@ (<< pool, nullifier >> :> nullifier_account)
                    /\ notes' = [k \in DOMAIN notes |->
                           IF k[1] = pool THEN [notes[k] EXCEPT !.is_spent = TRUE]
                           ELSE notes[k]]
                    /\ pools' = [pools EXCEPT
                           ![pool].nullifier_count = @ + 1,
                           ![pool].merkle_root = new_root,
                           ![pool].next_note_index =
                               IF output_commitment # ZERO32 THEN @ + 1 ELSE @]
                    /\ inserted' = [inserted EXCEPT ![pool] =
                           IF output_commitment # ZERO32
                           THEN Append(@, << output_commitment, pools[pool].next_note_index >>)
                           ELSE @]
                    /\ Finish(call, err,
                           << [type |-> "ShieldedWithdraw", pool |-> pool,
                               nullifier |-> nullifier,
                               output_commitment |-> output_commitment,
                               merkle_root |-> new_root,
                               timestamp |-> current_time] >>)
           ELSE /\ UNCHANGED << nullifiers, pools, inserted, notes >>
                /\ Finish(call, err, << >>)
        /\ UNCHANGED << now, wallets, proposals, vote_records, multisigs,
                        ms_proposals >>

shield_withdraw(pool, withdrawer, nullifier, merkle_proof, merkle_path_indices, withdrawal_proof, output_commitment) ==
    LET call == [op |-> "shield_withdraw", pool |-> pool, withdrawer |-> withdrawer,
                 nullifier |-> nullifier, merkle_proof |-> merkle_proof,
                 merkle_path_indices |-> merkle_path_indices,
                 proof |-> withdrawal_proof, output_commitment |-> output_commitment]
        current_time == now
        err  == shield_withdraw_err(pool, withdrawer, nullifier, merkle_proof, merkle_path_indices, withdrawal_proof, output_commitment)
    IN  /\ IF err = "Ok"
           THEN LET nullifier_account ==
                        [pool |-> pool, nullifier |-> nullifier,
                         spent_at |-> current_time]
                    new_root ==
                        IF output_commitment # ZERO32
                        THEN insert_note_to_merkle_tree(pools[pool].merkle_root,
                                 output_commitment, pools[pool].next_note_index)
                        ELSE pools[pool].merkle_root
                IN  /\ nullifiers' = nullifiers @@ (<< pool, nullifier >> :> nullifier_account)
                    /\ pools' = [pools EXCEPT
                           ![pool].nullifier_count = @ + 1,
                           ![pool].merkle_root = new_root,
                           ![pool].next_note_index =
                               IF output_commitment # ZERO32 THEN @ + 1 ELSE @]
                    /\ inserted' = [inserted EXCEPT ![pool] =
                           IF output_commitment # ZERO32
                           THEN Append(@, << output_commitment, pools[pool].next_note_index >>)
                           ELSE @]
                    /\ Finish(call, err,
                           << [type |-> "ShieldedWithdraw", pool |-> pool,
                               nullifier |-> nullifier,
                               output_commitment |-> output_commitment,
                               merkle_root |-> new_root,
                               timestamp |-> current_time] >>)
           ELSE /\ UNCHANGED << nullifiers, pools, inserted >>
                /\ Finish(call, err, << >>)
        /\ UNCHANGED << now, wallets, proposals, vote_records, multisigs,
                        ms_proposals, notes >>

claim_shielded_rewards_err(pool, claimer, stake_nullifier, merkle_proof, merkle_path_indices, reward_proof, new_note_commitment) ==
    LET current_time == now
    IN  IF pool \notin DOMAIN pools THEN "AccountNotInitialized"
        ELSE IF << pool, stake_nullifier >> \in DOMAIN nullifiers
             THEN "AccountInUse"
        ELSE IF ~pools[pool].is_active THEN "PoolNotActive"
        ELSE IF is_nullifier_used(pools[pool], stake_nullifier)
             THEN "NullifierAlreadyUsed"
        ELSE IF ~verify_merkle_proof(pools[pool].merkle_root, merkle_proof,
                                     merkle_path_indices, stake_nullifier)
             THEN "InvalidMerkleProof"
        ELSE IF ~(ByteLen(reward_proof) >= GROTH16_PROOF_LEN)
             THEN "InvalidRewardProof"
        ELSE IF ~verify_reward_proof(stake_nullifier, new_note_commitment,
                                     pools[pool].reward_rate_bps, current_time,
                                     reward_proof)
             THEN "InvalidRewardProof"
        ELSE "Ok"

\* a claim that, like a withdrawal, inserts nothing for an all-zero commitment
claim_shielded_rewards_skips_zero(pool, claimer, stake_nullifier, merkle_proof, merkle_path_indices, reward_proof, new_note_commitment) ==
    LET call == [op |-> "claim_shielded_rewards", pool |-> pool, claimer |-> claimer,
                 nullifier |-> stake_nullifier, merkle_proof |-> merkle_proof,
                 merkle_path_indices |-> merkle_path_indices,
                 proof |-> reward_proof, new_note_commitment |-> new_note_commitment]
        current_time == now
        err  == claim_shielded_rewards_err(pool, claimer, stake_nullifier, merkle_proof, merkle_path_indices, reward_proof, new_note_commitment)
    IN  /\ IF err = "Ok"
           THEN LET nullifier_account ==
                        [pool |-> pool, nullifier |-> stake_nullifier,
                         spent_at |-> current_time]
                    new_root ==
                        IF new_note_commitment # ZERO32
                        THEN insert_note_to_merkle_tree(pools[pool].merkle_root,
                                 new_note_commitment, pools[pool].next_note_index)
                        ELSE pools[pool].merkle_root
                IN  /\ nullifiers' = nullifiers
                                        @@ (<< pool, stake_nullifier >> :> nullifier_account)
                    /\ pools' = [pools EXCEPT ![pool].nullifier_count = @ + 1,
                                              ![pool].merkle_root = new_root,
                                              ![pool].next_note_index =
                                                  IF new_note_commitment # ZERO32
                                                  THEN @ + 1 ELSE @]
                    /\ inserted' = [inserted EXCEPT ![pool] =
                           IF new_note_commitment # ZERO32
                           THEN Append(@, << new_note_commitment, pools[pool].next_note_index >>)
                           ELSE @]
                    /\ Finish(call, err,
                           << [type |-> "ShieldedRewardsClaimed", pool |-> pool,
                               stake_nullifier |-> stake_nullifier,
                               new_note_commitment |-> new_note_commitment,
                               merkle_root |-> new_root,
                               timestamp |-> current_time] >>)
           ELSE /\ UNCHANGED << nullifiers, pools, inserted >>
                /\ Finish(call, err, << >>)
        /\ UNCHANGED << now, wallets, proposals, vote_records, multisigs,
                        ms_proposals, notes >>

\* a claim that records its nullifier without counting it
claim_shielded_rewards_uncounted(pool, claimer, stake_nullifier, merkle_proof, merkle_path_indices, reward_proof, new_note_commitment) ==
    LET call == [op |-> "claim_shielded_rewards", pool |-> pool, claimer |-> claimer,
                 nullifier |-> stake_nullifier, merkle_proof |-> merkle_proof,
                 merkle_path_indices |-> merkle_path_indices,
                 proof |-> reward_proof, new_note_commitment |-> new_note_commitment]
        current_time == now
        err  == claim_shielded_rewards_err(pool, claimer, stake_nullifier, merkle_proof, merkle_path_indices, reward_proof, new_note_commitment)
    IN  /\ IF err = "Ok"
           THEN LET nullifier_account ==
                        [pool |-> pool, nullifier |-> stake_nullifier,
                         spent_at |-> current_time]
                    new_root == insert_note_to_merkle_tree(pools[pool].merkle_root,
                                    new_note_commitment, pools[pool].next_note_index)
                IN  /\ nullifiers' = nullifiers
                                        @@ (<< pool, stake_nullifier >> :> nullifier_account)
                    /\ pools' = [pools EXCEPT ![pool].merkle_root = new_root,
                                              ![pool].next_note_index = @ + 1]
                    /\ inserted' = [inserted EXCEPT ![pool] =
                           Append(@, << new_note_commitment, pools[pool].next_note_index >>)]
                    /\ Finish(call, err,
                           << [type |-> "ShieldedRewardsClaimed", pool |-> pool,
                               stake_nullifier |-> stake_nullifier,
                               new_note_commitment |-> new_note_commitment,
                               merkle_root |-> new_root,
                               timestamp |-> current_time] >>)
           ELSE /\ UNCHANGED << nullifiers, pools, inserted >>
                /\ Finish(call, err, << >>)
        /\ UNCHANGED << now, wallets, proposals, vote_records, multisigs,
                        ms_proposals, notes >>

claim_shielded_rewards(pool, claimer, stake_nullifier, merkle_proof, merkle_path_indices, reward_proof, new_note_commitment) ==
    LET call == [op |-> "claim_shielded_rewards", pool |-> pool, claimer |-> claimer,
                 nullifier |-> stake_nullifier, merkle_proof |-> merkle_proof,
                 merkle_path_indices |-> merkle_path_indices,
                 proof |-> reward_proof, new_note_commitment |-> new_note_commitment]
        current_time == now
        err  == claim_shielded_rewards_err(pool, claimer, stake_nullifier, merkle_proof, merkle_path_indices, reward_proof, new_note_commitment)
    IN  /\ IF err = "Ok"
           THEN LET nullifier_account ==
                        [pool |-> pool, nullifier |-> stake_nullifier,
                         spent_at |-> current_time]
                    new_root == insert_note_to_merkle_tree(pools[pool].merkle_root,
                                    new_note_commitment, pools[pool].next_note_index)
                IN  /\ nullifiers' = nullifiers
                                        @@ (<< pool, stake_nullifier >> :> nullifier_account)
                    /\ pools' = [pools EXCEPT ![pool].nullifier_count = @ + 1,
                                              ![pool].merkle_root = new_root,
                                              ![pool].next_note_index = @ + 1]
                    /\ inserted' = [inserted EXCEPT ![pool] =
                           Append(@, << new_note_commitment, pools[pool].next_note_index >>)]
                    /\ Finish(call, err,
                           << [type |-> "ShieldedRewardsClaimed", pool |-> pool,
                               stake_nullifier |-> stake_nullifier,
                               new_note_commitment |-> new_note_commitment,
                               merkle_root |-> new_root,
                               timestamp |-> current_time] >>)
           ELSE /\ UNCHANGED << nullifiers, pools, inserted >>
                /\ Finish(call, err, << >>)
        /\ UNCHANGED << now, wallets, proposals, vote_records, multisigs,
                        ms_proposals, notes >>

----------------------------------------------------------------------------
(* Specifications *)

\* --- voting ---
ProposalIds == {1}
VoteProposalKeys == { << "alice", id >> : id \in ProposalIds }
Secrets == {1, 2}
VoteCommitments == {1, 2, 3}

NextVote ==
    \/ \E t \in Times : Tick(t)
    \/ \E id \in ProposalIds, ve \in Times, re \in Times :
           create_proposal("alice", id, 1, ve, re)
    \/ \E p \in VoteProposalKeys, v \in Pubkeys, c \in VoteCommitments :
           cast_vote(p, v, c)
    \/ \E p \in VoteProposalKeys, v \in Pubkeys, ch \in BOOLEAN, s \in Secrets :
           reveal_vote(p, v, ch, s)
    \/ \E p \in VoteProposalKeys, a \in Pubkeys : finalize_proposal(p, a)

SpecVote == Init /\ [][NextVote]_vars

\* --- multisig ---
VaultIds == {1}
MultisigKeys == { << "alice", id >> : id \in VaultIds }
MsProposalIds == {1}
Thresholds == {0, 1, 2, 3}
SignerSets == { << 1, 2 >>, << 1, 2, 3 >>, [i \in 1..(MAX_MULTISIG_SIGNERS + 1) |-> 1] }
SignerProofs == {0, 1}
ApprovalCommitments == {0, 1, 2}

NextMultisig ==
    \/ \E t \in Times : Tick(t)
    \/ \E id \in VaultIds, th \in Thresholds, sc \in SignerSets :
           create_multisig("alice", id, th, sc)
    \/ \E m \in MultisigKeys, id \in MsProposalIds :
           create_multisig_proposal(m, "bob", id, 1)
    \/ \E m \in MultisigKeys, id \in MsProposalIds, sp \in SignerProofs,
          ac \in ApprovalCommitments :
           stealth_sign(m, id, "bob", sp, ac)
    \/ \E m \in MultisigKeys, id \in MsProposalIds :
           execute_multisig_proposal(m, id, "bob")

SpecMultisig == Init /\ [][NextMultisig]_vars

\* --- identity and recovery ---
WalletCommitments == {1, 2}
TimelockDays == {0, 1, 2, 91}
RecoveryProofs == { << >>, << 1 >> }

WalletOwners == {"alice"}

\* the bound on successful instructions of a behaviour
Capped == okCount < MaxOps

NextWallet ==
    \/ \E t \in Times : Tick(t)
    \/ \E u \in WalletOwners, c \in WalletCommitments :
           Capped /\ initialize_commitment(u, c)
    \/ \E w \in WalletOwners, u \in Pubkeys, d \in TimelockDays :
           Capped /\ initiate_recovery(w, u, 3, d)
    \/ \E w \in WalletOwners, u \in Pubkeys, pr \in RecoveryProofs :
           Capped /\ execute_recovery(w, u, pr)
    \/ \E w \in WalletOwners, u \in Pubkeys : Capped /\ cancel_recovery(w, u)

SpecWallet == Init /\ [][NextWallet]_vars


\* --- shielded pool ---
PoolIds == {1}
PoolKeys == { << "alice", id >> : id \in PoolIds }
RewardRates == {500, 10001}
LockupEpochs == {0, 1, 53}
NoteCommitments == {0, 1, 2}
EncryptedNotes == {1}
\* a proof the verifier accepts, one that is too short, one whose first word is zero
RangeProofs == { << 1, 1 >>, << 1 >>, << 0, 1 >> }
Nullifiers == {1, 2}
Siblings == { [i \in 1..MERKLE_TREE_DEPTH |-> 1] }
PathBits == {0, 5}
Groth16Proofs == { [i \in 1..8 |-> 1], [i \in 1..8 |-> IF i = 1 THEN WORD_MAX ELSE 1] }
OutputCommitments == {0, 1}
\* reward proofs: one of 256 bytes and one of 224 bytes
RewardProofs == { [i \in 1..8 |-> 1], [i \in 1..7 |-> 1] }

HasRoom(p) == p \in DOMAIN pools => pools[p].total_notes < MaxNotes

CappedPool == okCount < MaxPoolOps

NextPool ==
    \/ \E t \in Times : Tick(t)
    \/ \E id \in PoolIds, r \in RewardRates, l \in LockupEpochs :
           CappedPool /\ create_shielded_pool("alice", id, r, l)
    \/ \E p \in PoolKeys, c \in NoteCommitments, e \in EncryptedNotes, rp \in RangeProofs :
           CappedPool /\ HasRoom(p) /\ shield_deposit(p, "bob", c, e, rp)
    \/ \E p \in PoolKeys, n \in Nullifiers, mp \in Siblings, pb \in PathBits,
          wp \in Groth16Proofs, oc \in OutputCommitments :
           CappedPool /\ shield_withdraw(p, "bob", n, mp, pb, wp, oc)
    \/ \E p \in PoolKeys, n \in Nullifiers, mp \in Siblings, pb \in PathBits,
          wp \in RewardProofs, oc \in OutputCommitments :
           CappedPool /\ claim_shielded_rewards(p, "bob", n, mp, pb, wp, oc)

SpecPool == Init /\ [][NextPool]_vars

----------------------------------------------------------------------------
(* Properties: commit-reveal voting (checked under SpecVote) *)

\* C2: for every proposal, in every reachable state, yes_count + no_count =
\* total_revealed and total_revealed <= total_commitments.
C2_TallyInvariant ==
    \A p \in DOMAIN proposals :
        /\ proposals[p].yes_count + proposals[p].no_count = proposals[p].total_revealed
        /\ proposals[p].total_revealed <= proposals[p].total_commitments

\* both voters have committed, one yes and one no have been revealed
C2_Witness ==
    \E p \in DOMAIN proposals :
        /\ proposals[p].total_commitments = 2
        /\ proposals[p].yes_count = 1
        /\ proposals[p].no_count = 1

\* the reveal just executed, its vote record and its window, read in the state before
RevealStep == res'.call.op = "reveal_vote"
RevealKey == << res'.call.proposal, res'.call.voter >>
RevealPending ==
    /\ res'.call.proposal \in DOMAIN proposals
    /\ RevealKey \in DOMAIN vote_records
    /\ vote_records[RevealKey].has_voted
    /\ ~vote_records[RevealKey].has_revealed
RevealWindowOpen ==
    /\ proposals[res'.call.proposal].voting_ends_at <= now
    /\ now < proposals[res'.call.proposal].reveal_ends_at
RevealMatches ==
    keccak_hash(<< IF res'.call.vote_choice THEN 1 ELSE 0, res'.call.secret,
                   PubkeyWord(res'.call.voter) >>)
        = vote_records[RevealKey].commitment

\* C3: for a voter who has cast and not yet revealed, reveal_vote(choice, secret)
\* inside the reveal window succeeds iff Hash(choice || secret || voter) equals the
\* stored commitment; a non-matching pair fails InvalidVoteReveal and leaves the
\* vote record and the tallies unchanged.
C3_RevealCorrect ==
    [][ (RevealStep /\ RevealPending /\ RevealWindowOpen) =>
            /\ (res'.err = "Ok") <=> RevealMatches
            /\ ~RevealMatches => /\ res'.err = "InvalidVoteReveal"
                                 /\ vote_records' = vote_records
                                 /\ proposals' = proposals ]_vars

\* a reveal with a non-matching pair has just been rejected after another voter's
\* matching reveal was accepted
C3_Witness ==
    /\ res.call.op = "reveal_vote"
    /\ res.err = "InvalidVoteReveal"
    /\ \E p \in DOMAIN proposals : proposals[p].total_revealed = 1

\* C8: reveal_vote can succeed only while voting_ends_at <= now < reveal_ends_at:
\* before voting_ends_at it fails VotingNotEnded, at or after reveal_ends_at it
\* fails RevealEnded, and inside the window a pending vote revealed with the
\* matching choice and secret succeeds and updates the tallies.
C8_RevealWindow ==
    [][ (RevealStep /\ res'.call.proposal \in DOMAIN proposals
                    /\ RevealKey \in DOMAIN vote_records) =>
            LET p == res'.call.proposal IN
            /\ res'.err = "Ok" => RevealWindowOpen
            /\ now < proposals[p].voting_ends_at => res'.err = "VotingNotEnded"
            /\ now >= proposals[p].reveal_ends_at => res'.err = "RevealEnded"
            /\ (RevealWindowOpen /\ RevealPending /\ RevealMatches) =>
                   /\ res'.err = "Ok"
                   /\ proposals'[p].total_revealed = proposals[p].total_revealed + 1
                   /\ proposals'[p].yes_count = proposals[p].yes_count
                          + (IF res'.call.vote_choice THEN 1 ELSE 0)
                   /\ proposals'[p].no_count = proposals[p].no_count
                          + (IF res'.call.vote_choice THEN 0 ELSE 1) ]_vars

\* scenario A: the proposal closes voting at day 1 and reveals at day 2; a reveal
\* at day 1 has just succeeded and is counted
C8_Witness ==
    /\ res.call.op = "reveal_vote"
    /\ res.err = "Ok"
    /\ now = SECONDS_PER_DAY
    /\ proposals[res.call.proposal].voting_ends_at = SECONDS_PER_DAY
    /\ proposals[res.call.proposal].reveal_ends_at = 2 * SECONDS_PER_DAY
    /\ proposals[res.call.proposal].total_revealed = 1

----------------------------------------------------------------------------
(* Properties: stealth multisig (checked under SpecMultisig) *)

ThresholdOf(key) == multisigs[key[1]].threshold

\* C4: a multisig proposal is executed only with enough approvals:
\* execute_multisig_proposal fails InsufficientApprovals whenever approval_count <
\* threshold, and in every reachable state is_executed implies approval_count >=
\* threshold of its vault.
C4_ExecuteNeedsThreshold ==
    /\ [] (\A key \in DOMAIN ms_proposals :
              ms_proposals[key].is_executed =>
                  ms_proposals[key].approval_count >= ThresholdOf(key))
    /\ [][ (/\ res'.call.op = "execute_multisig_proposal"
            /\ res'.call.proposal \in DOMAIN ms_proposals
            /\ ms_proposals[res'.call.proposal].approval_count
                   < ThresholdOf(res'.call.proposal))
           => /\ res'.err = "InsufficientApprovals"
              /\ ms_proposals' = ms_proposals ]_vars

\* scenario D: threshold 2 of 3 signers, the second distinct approval is in and
\* the execute has just succeeded
C4_Witness ==
    /\ res.call.op = "execute_multisig_proposal"
    /\ res.err = "Ok"
    /\ multisigs[res.call.multisig].threshold = 2
    /\ multisigs[res.call.multisig].total_signers = 3
    /\ ms_proposals[res.call.proposal].approval_count = 2
    /\ ms_proposals[res.call.proposal].approval_commitments[1]
           # ms_proposals[res.call.proposal].approval_commitments[2]

\* C5: a multisig proposal executes at most once: once is_executed is set, every
\* later execute_multisig_proposal and every later stealth_sign on it fails
\* ProposalAlreadyExecuted, is_executed stays true, and approval_count and the
\* stored approval commitments never change again.
C5_ExecuteOnce ==
    [][ \A key \in DOMAIN ms_proposals :
            ms_proposals[key].is_executed =>
                /\ key \in DOMAIN ms_proposals'
                /\ ms_proposals'[key].is_executed
                /\ ms_proposals'[key].approval_count = ms_proposals[key].approval_count
                /\ ms_proposals'[key].approval_commitments
                       = ms_proposals[key].approval_commitments
                /\ (/\ res'.call.op \in {"execute_multisig_proposal", "stealth_sign"}
                    /\ res'.call.proposal = key)
                   => res'.err = "ProposalAlreadyExecuted" ]_vars

\* a stealth_sign with a fresh commitment and a non-zero proof has just been
\* rejected because the proposal was already executed
C5_Witness ==
    /\ res.call.op = "stealth_sign"
    /\ res.err = "ProposalAlreadyExecuted"
    /\ res.call.signer_proof # ZERO32
    /\ \A i \in 1..MAX_MULTISIG_SIGNERS :
           ms_proposals[res.call.proposal].approval_commitments[i]
               # res.call.approval_commitment

----------------------------------------------------------------------------
(* Properties: identity recovery (checked under SpecWallet) *)

\* C9: execute_recovery succeeds only when recovery_active is true, now >=
\* recovery_unlock_at and the proof is non-empty; with no active recovery it fails
\* NoActiveRecovery, with an active recovery and now < recovery_unlock_at it fails
\* TimelockNotExpired (so an execute at the time of the initiate always fails),
\* and on success it clears recovery_active.
C9_ExecuteRecovery ==
    [][ (res'.call.op = "execute_recovery" /\ res'.call.wallet \in DOMAIN wallets) =>
            LET w == res'.call.wallet IN
            /\ res'.err = "Ok" =>
                   /\ wallets[w].recovery_active
                   /\ now >= wallets[w].recovery_unlock_at
                   /\ Len(res'.call.recovery_proof) > 0
                   /\ ~wallets'[w].recovery_active
            /\ ~wallets[w].recovery_active => res'.err = "NoActiveRecovery"
            /\ (wallets[w].recovery_active /\ now < wallets[w].recovery_unlock_at)
                   => res'.err = "TimelockNotExpired"
            /\ (wallets[w].recovery_active /\ now = wallets[w].recovery_initiated_at)
                   => res'.err = "TimelockNotExpired"
            /\ res'.err # "Ok" => wallets' = wallets ]_vars

\* scenario C: a recovery initiated with a two-day timelock has just been executed,
\* exactly when the timelock expired
C9_Witness ==
    /\ res.call.op = "execute_recovery"
    /\ res.err = "Ok"
    /\ wallets[res.call.wallet].recovery_unlock_at
           = wallets[res.call.wallet].recovery_initiated_at + 2 * SECONDS_PER_DAY
    /\ wallets[res.call.wallet].recovery_executed_at
           = wallets[res.call.wallet].recovery_unlock_at
    /\ ~wallets[res.call.wallet].recovery_active

----------------------------------------------------------------------------
(* Shielded pool: nullifiers and deposits *)

\* two pools of one creator; a deposit comes from one of two callers, each with
\* its own encrypted payload and its own accepted range proof, at any time
PairPoolIds == {1, 2}
PairPoolKeys == { << "alice", id >> : id \in PairPoolIds }
PairCommitments == {1, 2}
PairDepositors ==
    { [depositor |-> "alice", encrypted_note |-> 1, range_proof |-> << 1, 1 >>],
      [depositor |-> "bob",   encrypted_note |-> 2, range_proof |-> << 1, 2 >>] }

CappedPair == okCount < MaxPairOps

NextPoolPair ==
    \/ \E t \in Times : Tick(t)
    \/ \E id \in PairPoolIds :
           CappedPair /\ create_shielded_pool("alice", id, 500, 1)
    \/ \E p \in PairPoolKeys, d \in PairDepositors, c \in PairCommitments :
           CappedPair /\ HasRoom(p)
           /\ shield_deposit(p, d.depositor, c, d.encrypted_note, d.range_proof)
    \/ \E p \in PairPoolKeys :
           CappedPair /\ HasRoom(p)
           /\ shield_withdraw(p, "bob", 2, [i \in 1..MERKLE_TREE_DEPTH |-> 1], 0,
                              [i \in 1..8 |-> 1], 1)

SpecPoolPair == Init /\ [][NextPoolPair]_vars

\* --- the whole program ---
CappedAll == okCount < MaxOpsAll

Next ==
    \/ \E t \in Times : Tick(t)
    \/ CappedAll /\ initialize_commitment("alice", 1)
    \/ \E u \in Pubkeys, pd \in Groth16Proofs :
           CappedAll /\ submit_proof("alice", u, pd, << 1 >>)
    \/ \E u \in Pubkeys, d \in {0, 1} :
           CappedAll /\ initiate_recovery("alice", u, 3, d)
    \/ \E pr \in RecoveryProofs : CappedAll /\ execute_recovery("alice", "alice", pr)
    \/ \E u \in Pubkeys : CappedAll /\ cancel_recovery("alice", u)
    \/ \E re \in {SECONDS_PER_DAY, 2 * SECONDS_PER_DAY} :
           CappedAll /\ create_proposal("alice", 1, 1, SECONDS_PER_DAY, re)
    \/ \E p \in VoteProposalKeys, c \in VoteCommitments :
           CappedAll /\ cast_vote(p, "bob", c)
    \/ \E p \in VoteProposalKeys, ch \in BOOLEAN, s \in Secrets :
           CappedAll /\ reveal_vote(p, "bob", ch, s)
    \/ \E p \in VoteProposalKeys : CappedAll /\ finalize_proposal(p, "bob")
    \/ \E th \in {0, 1} : CappedAll /\ create_multisig("alice", 1, th, << 1, 2 >>)
    \/ \E m \in MultisigKeys : CappedAll /\ create_multisig_proposal(m, "bob", 1, 1)
    \/ \E m \in MultisigKeys, sp \in SignerProofs :
           CappedAll /\ stealth_sign(m, 1, "bob", sp, 1)
    \/ \E m \in MultisigKeys : CappedAll /\ execute_multisig_proposal(m, 1, "bob")
    \/ \E r \in RewardRates : CappedAll /\ create_shielded_pool("alice", 1, r, 1)
    \/ \E p \in PoolKeys, c \in {0, 1} :
           CappedAll /\ HasRoom(p) /\ shield_deposit(p, "bob", c, 1, << 1, 1 >>)
    \/ \E p \in PoolKeys, n \in Nullifiers, mp \in Siblings, pb \in PathBits,
          wp \in Groth16Proofs :
           CappedAll /\ shield_withdraw(p, "bob", n, mp, pb, wp, 0)
    \/ \E p \in PoolKeys, n \in Nullifiers, mp \in Siblings, wp \in Groth16Proofs :
           CappedAll /\ claim_shielded_rewards(p, "bob", n, mp, 0, wp, 1)

Spec == Init /\ [][Next]_vars

\* --- proofs of identity ---
\* proof blobs: well-formed (8 and 9 words), one word short, a first point above
\* the field, a last point equal to the modulus
ProofBlobs ==
    { [i \in 1..8 |-> 1], [i \in 1..9 |-> 2], [i \in 1..7 |-> 1],
      [i \in 1..8 |-> IF i = 1 THEN WORD_MAX ELSE 1],
      [i \in 1..8 |-> IF i = 8 THEN WORD_MODULUS ELSE 1] }
SignalLists ==
    { << >>, << 1 >>, << 2 >>, << 1, 2 >>, << 1, WORD_MAX >>, << WORD_MAX >>,
      << WORD_BELOW_MODULUS >>, << WORD_MODULUS >> }
ProofCommitments == {1, WORD_BELOW_MODULUS, WORD_MODULUS, WORD_MAX}

CappedProof == okCount < MaxProofOps

NextProof ==
    \/ \E u \in Pubkeys, c \in ProofCommitments :
           CappedProof /\ initialize_commitment(u, c)
    \/ \E w \in Pubkeys, u \in Pubkeys, pd \in ProofBlobs, ps \in SignalLists :
           CappedProof /\ submit_proof(w, u, pd, ps)

SpecProof == Init /\ [][NextProof]_vars

\* --- verify_field_element on its own ---
\* byte strings around the modulus: the modulus with one byte lowered, raised or
\* kept, the extremes, and strings of other lengths
Perturbed(i, d) == [j \in 1..WORD_LEN |-> IF j = i THEN BN128_MODULUS[j] + d
                                                   ELSE BN128_MODULUS[j]]
FieldInputs ==
    { Perturbed(i, d) : i \in 1..WORD_LEN, d \in {-1, 0, 1} }
    \cup { [j \in 1..WORD_LEN |-> 0], [j \in 1..WORD_LEN |-> 255] }
    \cup { [j \in 1..WORD_LEN |-> IF j = 1 THEN 0 ELSE 255],
           [j \in 1..WORD_LEN |-> IF j = 1 THEN 255 ELSE 0] }
    \cup { << >>, << 0 >>, [j \in 1..(WORD_LEN - 1) |-> 0], [j \in 1..(WORD_LEN + 1) |-> 0],
           [j \in 1..(WORD_LEN - 1) |-> BN128_MODULUS[j]],
           [j \in 1..(WORD_LEN + 1) |-> IF j > 1 THEN BN128_MODULUS[j - 1] ELSE 0] }

InitField ==
    /\ now = 0
    /\ wallets = Empty
    /\ proposals = Empty
    /\ vote_records = Empty
    /\ multisigs = Empty
    /\ ms_proposals = Empty
    /\ pools = Empty
    /\ notes = Empty
    /\ nullifiers = Empty
    /\ inserted = Empty
    /\ okCount = 0
    /\ eventCount = 0
    /\ \E value \in FieldInputs :
           res = [call |-> [op |-> "input", value |-> value], err |-> "Ok",
                  events |-> << >>]

ApplyField ==
    /\ res.call.op = "input"
    /\ res' = [call |-> [op |-> "verify_field_element", value |-> res.call.value,
                         returned |-> verify_field_element(res.call.value)],
               err |-> "Ok", events |-> << >>]
    /\ UNCHANGED << now, accounts, inserted, okCount, eventCount >>

NextField == ApplyField

SpecField == InitField /\ [][NextField]_vars

NullifierStep == res'.call.op \in {"shield_withdraw", "claim_shielded_rewards"}

NullifierKey == << res'.call.pool, res'.call.nullifier >>

\* C1: a nullifier is accepted at most once per pool, by shield_withdraw and
\* claim_shielded_rewards alike. An instruction naming a (pool, nullifier) pair
\* that already has a record fails and changes neither the pool, the notes nor the
\* nullifier records; an instruction that succeeds named a pair without a record
\* and leaves exactly that record behind; records are never removed.
C1_NullifierOnce ==
    [][ /\ DOMAIN nullifiers \subseteq DOMAIN nullifiers'
        /\ NullifierStep =>
             /\ NullifierKey \in DOMAIN nullifiers =>
                  /\ res'.err # "Ok"
                  /\ UNCHANGED << pools, notes, nullifiers >>
             /\ res'.err = "Ok" =>
                  /\ NullifierKey \notin DOMAIN nullifiers
                  /\ DOMAIN nullifiers' = DOMAIN nullifiers \cup {NullifierKey}
      ]_vars

\* a second use of a recorded nullifier has just been rejected
C1_Witness ==
    /\ res.call.op \in {"shield_withdraw", "claim_shielded_rewards"}
    /\ << res.call.pool, res.call.nullifier >> \in DOMAIN nullifiers
    /\ res.err = "AccountInUse"
    /\ pools[res.call.pool].nullifier_count = 1

DepositStep == res'.call.op = "shield_deposit" /\ res'.err = "Ok"

\* C6: a successful shield_deposit of commitment c into a pool with root R and
\* next_note_index i creates the note (pool, i) carrying c and index i, sets the
\* root to keccak(R || c || i as 4 little-endian bytes), and adds one to both
\* next_note_index and total_notes.
C6_DepositEffect ==
    [][ DepositStep =>
          LET p == res'.call.pool
              c == res'.call.note_commitment
              i == pools[p].next_note_index
              R == pools[p].merkle_root
          IN  /\ << p, i >> \notin DOMAIN notes
              /\ DOMAIN notes' = DOMAIN notes \cup {<< p, i >>}
              /\ notes'[<< p, i >>].commitment = c
              /\ notes'[<< p, i >>].note_index = i
              /\ pools'[p].merkle_root =
                     keccak_hash(<< R, c, i % 256, (i \div 256) % 256,
                                    (i \div 65536) % 256, (i \div 16777216) % 256 >>)
              /\ pools'[p].next_note_index = i + 1
              /\ pools'[p].total_notes = pools[p].total_notes + 1
      ]_vars

\* the second deposit into a pool has just succeeded at index 1
C6_Witness ==
    /\ res.call.op = "shield_deposit"
    /\ res.err = "Ok"
    /\ res.events[1].note_index = 1
    /\ pools[res.call.pool].next_note_index = 2
    /\ pools[res.call.pool].total_notes = 2

\* C7: merkle insertion is replay-deterministic. All pools start from the zero
\* root, so any two pools into which the same sequence of (commitment, index)
\* pairs has been inserted hold the same merkle_root, whoever called, whenever,
\* with whatever encrypted payload or proof bytes, by deposit or by withdrawal.
C7_ReplayDeterminism ==
    \A p \in DOMAIN pools, q \in DOMAIN pools :
        inserted[p] = inserted[q] => pools[p].merkle_root = pools[q].merkle_root

\* two pools share a non-empty insertion history although their first notes were
\* created at different times with different payloads
C7_Witness ==
    \E p \in DOMAIN pools, q \in DOMAIN pools :
        /\ p # q
        /\ inserted[p] # << >>
        /\ inserted[p] = inserted[q]
        /\ << p, 0 >> \in DOMAIN notes
        /\ << q, 0 >> \in DOMAIN notes
        /\ notes[<< p, 0 >>].created_at # notes[<< q, 0 >>].created_at
        /\ notes[<< p, 0 >>].encrypted_data # notes[<< q, 0 >>].encrypted_data
        /\ pools[p].merkle_root # ZERO32

----------------------------------------------------------------------------
(* Failure policy *)

\* C10: an instruction that fails any check leaves every account unchanged
\* (wallets, proposals, vote records, vaults, multisig proposals, pools, notes,
\* nullifier records) and emits no event; in particular a failing shield_withdraw
\* or claim_shielded_rewards creates no NullifierRecord and changes neither
\* merkle_root, next_note_index nor nullifier_count.
C10_FailureAtomic ==
    [][ res'.err # "Ok" =>
          /\ UNCHANGED accounts
          /\ res'.events = << >>
          /\ eventCount' = eventCount
          /\ okCount' = okCount
      ]_vars

\* a withdrawal whose Merkle proof matched the root of a pool holding a note has
\* just been rejected for its withdrawal proof
C10_Witness ==
    /\ res.call.op = "shield_withdraw"
    /\ res.err = "InvalidWithdrawalProof"
    /\ pools[res.call.pool].total_notes = 1
    /\ pools[res.call.pool].nullifier_count = 0
    /\ nullifiers = Empty

----------------------------------------------------------------------------
(* Events *)

\* C11: each successful instruction appends exactly one event to the log and each
\* failed instruction appends none, so the number of events always equals the
\* number of successful instructions.
C11_OneEventPerSuccess ==
    /\ [] (eventCount = okCount)
    /\ [][ res'.call.op # "tick" =>
             /\ res'.err = "Ok" => /\ Len(res'.events) = 1
                                   /\ eventCount' = eventCount + 1
             /\ res'.err # "Ok" => /\ res'.events = << >>
                                   /\ eventCount' = eventCount ]_vars

\* two instructions have succeeded and logged, and the one just executed failed
C11_Witness ==
    /\ okCount = 2
    /\ eventCount = 2
    /\ res.call.op \notin {"tick", "none"}
    /\ res.err # "Ok"
    /\ res.events = << >>

----------------------------------------------------------------------------
(* Voting: commit and finalize *)

VotesOf(p) == { k \in DOMAIN vote_records : k[1] = p }

CastStep == res'.call.op = "cast_vote" /\ res'.call.proposal \in DOMAIN proposals

CastKey == << res'.call.proposal, res'.call.voter >>

\* C12: cast_vote succeeds only while now < voting_ends_at (a voter without a
\* record is told VotingEnded from then on) and at most once per (proposal,
\* voter): a cast by a voter who already has a record fails and leaves that record
\* unchanged; each success creates the record and adds one to total_commitments,
\* so total_commitments always equals the number of vote records of the proposal.
C12_CastVote ==
    /\ [] (\A p \in DOMAIN proposals :
              proposals[p].total_commitments = Cardinality(VotesOf(p)))
    /\ [][ CastStep =>
             LET p == res'.call.proposal IN
             /\ res'.err = "Ok" =>
                  /\ now < proposals[p].voting_ends_at
                  /\ CastKey \notin DOMAIN vote_records
                  /\ DOMAIN vote_records' = DOMAIN vote_records \cup {CastKey}
                  /\ vote_records'[CastKey].commitment = res'.call.vote_commitment
                  /\ proposals'[p].total_commitments = proposals[p].total_commitments + 1
             /\ (CastKey \notin DOMAIN vote_records /\ now >= proposals[p].voting_ends_at)
                  => res'.err = "VotingEnded"
             /\ CastKey \in DOMAIN vote_records =>
                  /\ res'.err # "Ok"
                  /\ vote_records' = vote_records
                  /\ proposals' = proposals ]_vars

\* a second cast by the same voter, with another commitment and still inside the
\* commit phase, has just been rejected
C12_Witness ==
    /\ res.call.op = "cast_vote"
    /\ res.err # "Ok"
    /\ << res.call.proposal, res.call.voter >> \in DOMAIN vote_records
    /\ vote_records[<< res.call.proposal, res.call.voter >>].commitment
           # res.call.vote_commitment
    /\ now < proposals[res.call.proposal].voting_ends_at

Counts(p) == << proposals[p].yes_count, proposals[p].no_count,
                proposals[p].total_revealed, proposals[p].total_commitments >>

\* C13: finalize_proposal succeeds only when now >= reveal_ends_at (otherwise
\* RevealNotEnded) and only once (then AlreadyFinalized); once a proposal is
\* finalized it stays finalized and its yes_count, no_count, total_revealed and
\* total_commitments never change, the clock never going backwards.
C13_FinalizeFreezes ==
    [][ /\ now' >= now
        /\ \A p \in DOMAIN proposals :
             proposals[p].is_finalized =>
                 /\ p \in DOMAIN proposals'
                 /\ proposals'[p].is_finalized
                 /\ Counts(p)' = Counts(p)
        /\ (res'.call.op = "finalize_proposal" /\ res'.call.proposal \in DOMAIN proposals) =>
             LET p == res'.call.proposal IN
             /\ res'.err = "Ok" => /\ now >= proposals[p].reveal_ends_at
                                   /\ ~proposals[p].is_finalized
                                   /\ proposals'[p].is_finalized
             /\ now < proposals[p].reveal_ends_at => res'.err = "RevealNotEnded"
             /\ (now >= proposals[p].reveal_ends_at /\ proposals[p].is_finalized)
                  => res'.err = "AlreadyFinalized" ]_vars

\* a proposal with one revealed vote is finalized and a further reveal on it has
\* just been rejected
C13_Witness ==
    /\ res.call.op = "reveal_vote"
    /\ res.err # "Ok"
    /\ res.call.proposal \in DOMAIN proposals
    /\ proposals[res.call.proposal].is_finalized
    /\ proposals[res.call.proposal].total_revealed = 1
    /\ proposals[res.call.proposal].total_commitments = 2

----------------------------------------------------------------------------
(* Stealth multisig: thresholds and approvals *)

SignStep ==
    /\ res'.call.op = "stealth_sign"
    /\ res'.call.multisig \in DOMAIN multisigs
    /\ res'.call.proposal \in DOMAIN ms_proposals

SignOpen ==
    /\ ~ms_proposals[res'.call.proposal].is_executed
    /\ ms_proposals[res'.call.proposal].approval_count < ThresholdOf(res'.call.proposal)

StoredApprovals(key) ==
    { ms_proposals[key].approval_commitments[i] : i \in 1..ms_proposals[key].approval_count }

\* C14: create_multisig succeeds only if 1 <= threshold <= number of signer
\* commitments <= 10 (InvalidThreshold, TooManySigners otherwise) and stealth_sign
\* succeeds only while approval_count < threshold (ThresholdReached otherwise, on
\* a proposal not yet executed); hence every multisig proposal satisfies
\* approval_count <= threshold <= total_signers <= 10 in every reachable state.
C14_ThresholdBounds ==
    /\ [] (\A key \in DOMAIN ms_proposals :
              /\ ms_proposals[key].approval_count <= ThresholdOf(key)
              /\ 1 <= ThresholdOf(key)
              /\ ThresholdOf(key) <= multisigs[key[1]].total_signers
              /\ multisigs[key[1]].total_signers <= 10)
    /\ [][ (res'.call.op = "create_multisig" /\ res'.call.multisig \notin DOMAIN multisigs) =>
             LET th == res'.call.threshold
                 n  == Len(res'.call.signer_commitments)
             IN  /\ (res'.err = "Ok") <=> (1 <= th /\ th <= n /\ n <= 10)
                 /\ (th < 1 \/ n < th) => res'.err = "InvalidThreshold"
                 /\ (1 <= th /\ th <= n /\ n > 10) => res'.err = "TooManySigners"
                 /\ res'.err = "Ok" =>
                      /\ multisigs'[res'.call.multisig].threshold = th
                      /\ multisigs'[res'.call.multisig].total_signers = n ]_vars
    /\ [][ SignStep =>
             LET key == res'.call.proposal IN
             /\ res'.err = "Ok" =>
                  ms_proposals[key].approval_count < ThresholdOf(key)
             /\ (/\ ~ms_proposals[key].is_executed
                 /\ ms_proposals[key].approval_count >= ThresholdOf(key))
                  => res'.err = "ThresholdReached" ]_vars

\* a vault of three signers with threshold 2 holds two approvals and a third
\* signature has just been refused
C14_Witness ==
    /\ res.call.op = "stealth_sign"
    /\ res.err = "ThresholdReached"
    /\ multisigs[res.call.multisig].threshold = 2
    /\ multisigs[res.call.multisig].total_signers = 3
    /\ ms_proposals[res.call.proposal].approval_count = 2

\* C15: stealth_sign rejects a zero signer_proof (InvalidSignerProof) and an
\* approval_commitment equal to an approval already stored for the proposal
\* (DuplicateApproval); on success it stores the commitment at index
\* approval_count and adds one to the count, so the first approval_count entries
\* of approval_commitments are pairwise distinct and are never overwritten.
C15_DistinctApprovals ==
    /\ [] (\A key \in DOMAIN ms_proposals :
              Cardinality(StoredApprovals(key)) = ms_proposals[key].approval_count)
    /\ [][ \A key \in DOMAIN ms_proposals :
              \A i \in 1..ms_proposals[key].approval_count :
                  ms_proposals'[key].approval_commitments[i]
                      = ms_proposals[key].approval_commitments[i] ]_vars
    /\ [][ (SignStep /\ SignOpen) =>
             LET key == res'.call.proposal
                 n   == ms_proposals[key].approval_count
             IN  /\ res'.call.signer_proof = ZERO32 => res'.err = "InvalidSignerProof"
                 /\ (/\ res'.call.signer_proof # ZERO32
                     /\ res'.call.approval_commitment \in StoredApprovals(key))
                      => res'.err = "DuplicateApproval"
                 /\ (res'.err = "Ok") <=>
                      (/\ res'.call.signer_proof # ZERO32
                       /\ res'.call.approval_commitment \notin StoredApprovals(key))
                 /\ res'.err = "Ok" =>
                      /\ ms_proposals'[key].approval_commitments[n + 1]
                             = res'.call.approval_commitment
                      /\ ms_proposals'[key].approval_count = n + 1 ]_vars

\* one approval is stored, the threshold is not yet met, and a signature carrying
\* the same approval commitment has just been refused
C15_Witness ==
    /\ res.call.op = "stealth_sign"
    /\ res.err = "DuplicateApproval"
    /\ ms_proposals[res.call.proposal].approval_count = 1
    /\ ms_proposals[res.call.proposal].approval_commitments[1]
           = res.call.approval_commitment
    /\ multisigs[res.call.multisig].threshold >= 2

----------------------------------------------------------------------------
(* Identity and recovery *)

WalletStep(op) == res'.call.op = op /\ res'.call.wallet \in DOMAIN wallets

ByOwner == wallets[res'.call.wallet].owner = res'.call.user

ValidTimelock(days) == 1 <= days /\ days <= 90

\* C16: initiate_recovery succeeds only when recovery_active is false (otherwise
\* RecoveryAlreadyActive) and timelock_days is in 1..90 (otherwise
\* InvalidTimelockPeriod); it sets recovery_active and recovery_unlock_at =
\* recovery_initiated_at + timelock_days * 86400, so whenever recovery_active is
\* true the unlock time lies between 86400 and 90 * 86400 seconds after the
\* initiation; recovery_active becomes false again only through execute_recovery
\* or cancel_recovery, after which a new initiate_recovery is accepted.
C16_InitiateRecovery ==
    /\ [] (\A w \in DOMAIN wallets :
              wallets[w].recovery_active =>
                  LET wait == wallets[w].recovery_unlock_at
                                  - wallets[w].recovery_initiated_at
                  IN  /\ 86400 <= wait
                      /\ wait <= 90 * 86400
                      /\ wait % 86400 = 0)
    /\ [][ (WalletStep("initiate_recovery") /\ ByOwner) =>
             LET w == res'.call.wallet
                 days == res'.call.timelock_days
             IN  /\ wallets[w].recovery_active => res'.err = "RecoveryAlreadyActive"
                 /\ (~wallets[w].recovery_active /\ ~ValidTimelock(days))
                      => res'.err = "InvalidTimelockPeriod"
                 /\ (res'.err = "Ok") <=>
                      (~wallets[w].recovery_active /\ ValidTimelock(days))
                 /\ res'.err = "Ok" =>
                      /\ wallets'[w].recovery_active
                      /\ wallets'[w].recovery_initiated_at = now
                      /\ wallets'[w].recovery_unlock_at = now + days * 86400 ]_vars
    /\ [][ \A w \in DOMAIN wallets :
             /\ (wallets[w].recovery_active /\ ~wallets'[w].recovery_active) =>
                  /\ res'.call.op \in {"execute_recovery", "cancel_recovery"}
                  /\ res'.call.wallet = w
                  /\ res'.err = "Ok"
             /\ (~wallets[w].recovery_active /\ wallets'[w].recovery_active) =>
                  /\ res'.call.op = "initiate_recovery"
                  /\ res'.call.wallet = w
                  /\ res'.err = "Ok" ]_vars

\* a recovery has been executed and a new one has just been initiated
C16_Witness ==
    /\ res.call.op = "initiate_recovery"
    /\ res.err = "Ok"
    /\ wallets[res.call.wallet].recovery_executed_at > 0
    /\ wallets[res.call.wallet].recovery_active
    /\ wallets[res.call.wallet].recovery_initiated_at
           >= wallets[res.call.wallet].recovery_executed_at

\* C17: initialize_commitment creates the wallet record at most once per owner
\* address: a second call by the same owner fails and leaves the stored
\* commitment, created_at and recovery fields unchanged; a freshly created wallet
\* has recovery_active = false.
C17_InitializeOnce ==
    [][ res'.call.op = "initialize_commitment" =>
          LET u == res'.call.user IN
          /\ u \in DOMAIN wallets => /\ res'.err # "Ok"
                                     /\ wallets' = wallets
          /\ u \notin DOMAIN wallets =>
               /\ res'.err = "Ok"
               /\ DOMAIN wallets' = DOMAIN wallets \cup {u}
               /\ wallets'[u].owner = u
               /\ wallets'[u].commitment = res'.call.commitment
               /\ wallets'[u].created_at = now
               /\ ~wallets'[u].recovery_active
               /\ \A w \in DOMAIN wallets : wallets'[w] = wallets[w] ]_vars

\* the owner of a wallet with a recovery under way has just tried to initialize
\* again, later and with another commitment
C17_Witness ==
    /\ res.call.op = "initialize_commitment"
    /\ res.err # "Ok"
    /\ res.call.user \in DOMAIN wallets
    /\ wallets[res.call.user].commitment # res.call.commitment
    /\ wallets[res.call.user].recovery_active
    /\ wallets[res.call.user].created_at < now

\* C18: cancel_recovery and initiate_recovery are owner-only: a call by anyone
\* but the wallet's owner fails Unauthorized and leaves the wallet unchanged;
\* cancel_recovery by the owner succeeds only while recovery_active is true
\* (otherwise NoActiveRecovery) and clears recovery_active.
C18_OwnerOnly ==
    /\ [][ ((WalletStep("cancel_recovery") \/ WalletStep("initiate_recovery")) /\ ~ByOwner) =>
             /\ res'.err = "Unauthorized"
             /\ wallets' = wallets ]_vars
    /\ [][ (WalletStep("cancel_recovery") /\ ByOwner) =>
             LET w == res'.call.wallet IN
             /\ (res'.err = "Ok") <=> wallets[w].recovery_active
             /\ ~wallets[w].recovery_active => /\ res'.err = "NoActiveRecovery"
                                               /\ wallets' = wallets
             /\ res'.err = "Ok" => ~wallets'[w].recovery_active ]_vars

\* somebody else has just tried to cancel the owner's active recovery
C18_Witness ==
    /\ res.call.op = "cancel_recovery"
    /\ res.err = "Unauthorized"
    /\ res.call.user # wallets[res.call.wallet].owner
    /\ wallets[res.call.wallet].recovery_active

----------------------------------------------------------------------------
(* Proof submission *)

\* a 32-byte word below the BN128 modulus
InField(w) == w \notin {WORD_MAX, WORD_MODULUS}

SubmitStep == res'.call.op = "submit_proof" /\ res'.call.wallet \in DOMAIN wallets

\* C19: submit_proof succeeds only if the proof blob has at least 256 bytes,
\* there is at least one public signal, every public signal is a valid field
\* element and public_signals[0] equals the wallet's stored commitment (a proof
\* passing the structural checks with another first signal fails
\* CommitmentMismatch); whether it succeeds or fails it leaves the wallet record
\* unchanged.
C19_SubmitProof ==
    /\ [][ res'.call.op = "submit_proof" => wallets' = wallets ]_vars
    /\ [][ SubmitStep =>
             LET pd == res'.call.proof_data
                 ps == res'.call.public_signals
                 stored == wallets[res'.call.wallet].commitment
                 structural == /\ 32 * Len(pd) >= 256
                               /\ Len(ps) >= 1
                               /\ InField(pd[1]) /\ InField(pd[2])
                               /\ InField(pd[7]) /\ InField(pd[8])
                               /\ \A i \in 1..Len(ps) : InField(ps[i])
             IN  /\ res'.err = "Ok" =>
                      /\ 32 * Len(pd) >= 256
                      /\ Len(ps) >= 1
                      /\ \A i \in 1..Len(ps) : InField(ps[i])
                      /\ ps[1] = stored
                 /\ 32 * Len(pd) < 256 => res'.err = "InvalidProofStructure"
                 /\ (structural /\ ps[1] # stored) => res'.err = "CommitmentMismatch"
                 /\ (structural /\ ps[1] = stored)
                      => res'.err \in {"Ok", "InvalidProofHash"} ]_vars

\* a well-formed proof whose first signal is another wallet's commitment has just
\* been refused for this wallet
C19_Witness ==
    /\ res.call.op = "submit_proof"
    /\ res.err = "CommitmentMismatch"
    /\ \E w \in DOMAIN wallets :
           /\ w # res.call.wallet
           /\ wallets[w].commitment = res.call.public_signals[1]

----------------------------------------------------------------------------
(* Field elements *)

\* big-endian order: at the first byte where the two differ, a is the smaller
BigEndianLess(a, b) ==
    \E i \in 1..Len(b) : /\ a[i] < b[i]
                         /\ \A j \in 1..(i - 1) : a[j] = b[j]

\* C20: verify_field_element(x) returns true if and only if x has exactly 32
\* bytes and its big-endian integer value is strictly less than the BN128
\* modulus; a value equal to the modulus, any larger value and any input of
\* another length return false.
C20_FieldElement ==
    res.call.op = "verify_field_element" =>
        LET x == res.call.value IN
        /\ res.call.returned <=> (Len(x) = 32 /\ BigEndianLess(x, BN128_MODULUS))
        /\ x = BN128_MODULUS => ~res.call.returned
        /\ Len(x) # 32 => ~res.call.returned

\* the modulus itself has just been refused
C20_Witness ==
    /\ res.call.op = "verify_field_element"
    /\ res.call.value = BN128_MODULUS
    /\ ~res.call.returned

----------------------------------------------------------------------------
(* Proposals *)

Deadlines(p) == << proposals[p].created_at, proposals[p].voting_ends_at,
                   proposals[p].reveal_ends_at >>

\* C21: create_proposal succeeds only if voting_ends_at > now (otherwise
\* InvalidVotingPeriod) and reveal_ends_at > voting_ends_at (otherwise
\* InvalidRevealPeriod); so every stored proposal satisfies reveal_ends_at >
\* voting_ends_at > created_at, starts with all four counters at 0 and
\* is_finalized = false, and its three timestamps never change afterwards.
C21_CreateProposal ==
    /\ [] (\A p \in DOMAIN proposals :
              /\ proposals[p].reveal_ends_at > proposals[p].voting_ends_at
              /\ proposals[p].voting_ends_at > proposals[p].created_at)
    /\ [][ \A p \in DOMAIN proposals :
              p \in DOMAIN proposals' /\ Deadlines(p)' = Deadlines(p) ]_vars
    /\ [][ (res'.call.op = "create_proposal" /\ res'.call.proposal \notin DOMAIN proposals) =>
             LET p  == res'.call.proposal
                 ve == res'.call.voting_ends_at
                 re == res'.call.reveal_ends_at
             IN  /\ (res'.err = "Ok") <=> (ve > now /\ re > ve)
                 /\ ve <= now => res'.err = "InvalidVotingPeriod"
                 /\ (ve > now /\ re <= ve) => res'.err = "InvalidRevealPeriod"
                 /\ res'.err = "Ok" =>
                      /\ proposals'[p].created_at = now
                      /\ proposals'[p].voting_ends_at = ve
                      /\ proposals'[p].reveal_ends_at = re
                      /\ proposals'[p].yes_count = 0
                      /\ proposals'[p].no_count = 0
                      /\ proposals'[p].total_revealed = 0
                      /\ proposals'[p].total_commitments = 0
                      /\ ~proposals'[p].is_finalized
                 /\ res'.err # "Ok" => proposals' = proposals ]_vars

\* a proposal created at time 0 has been voted on, revealed and finalized, and
\* still carries the deadlines it was created with
C21_Witness ==
    \E p \in DOMAIN proposals :
        /\ proposals[p].is_finalized
        /\ proposals[p].total_revealed = 2
        /\ Deadlines(p) = << 0, SECONDS_PER_DAY, 2 * SECONDS_PER_DAY >>


\* ---------------------------------------------------------------------------
\* C22

CreatePoolStep == res'.call.op = "create_shielded_pool"

\* C22: create_shielded_pool on a fresh pool address succeeds exactly when
\* reward_rate_bps <= 10000 and 1 <= lockup_epochs <= 52; a larger rate fails
\* with InvalidRewardRate, otherwise a lockup outside 1..52 fails with
\* InvalidLockupPeriod.  The created pool has an all-zero merkle_root,
\* next_note_index = total_notes = nullifier_count = 0 and is_active = TRUE,
\* and the reward_rate_bps and lockup_epochs of an existing pool never change.
C22_CreatePool ==
    [][ /\ \A p \in DOMAIN pools :
              /\ p \in DOMAIN pools'
              /\ pools'[p].reward_rate_bps = pools[p].reward_rate_bps
              /\ pools'[p].lockup_epochs = pools[p].lockup_epochs
        /\ (CreatePoolStep /\ res'.call.pool \notin DOMAIN pools) =>
              LET p == res'.call.pool
                  r == res'.call.reward_rate_bps
                  l == res'.call.lockup_epochs
              IN  /\ (res'.err = "Ok") <=> (r <= 10000 /\ l >= 1 /\ l <= 52)
                  /\ (r > 10000) => res'.err = "InvalidRewardRate"
                  /\ (r <= 10000 /\ (l < 1 \/ l > 52)) => res'.err = "InvalidLockupPeriod"
                  /\ (res'.err = "Ok") =>
                        /\ p \in DOMAIN pools'
                        /\ pools'[p].reward_rate_bps = r
                        /\ pools'[p].lockup_epochs = l
                        /\ WordBytes(pools'[p].merkle_root) = [i \in 1..32 |-> 0]
                        /\ pools'[p].next_note_index = 0
                        /\ pools'[p].total_notes = 0
                        /\ pools'[p].nullifier_count = 0
                        /\ pools'[p].is_active = TRUE
                  /\ (res'.err # "Ok") => pools' = pools
      ]_vars

\* A create_shielded_pool with lockup_epochs = 1 has just succeeded, after time
\* has passed since program start.
C22_Witness ==
    /\ res.call.op = "create_shielded_pool"
    /\ res.err = "Ok"
    /\ res.call.lockup_epochs = 1
    /\ now > 0
    /\ res.call.pool \in DOMAIN pools


\* ---------------------------------------------------------------------------
\* One pool driven until its tree is full: deposits, withdrawals with change and
\* reward claims on the pool << "alice", 1 >>, with no cap on the number of
\* notes other than the program's own.

FillPool == << "alice", 1 >>
FillCommitments == {0, 1}
FillRangeProofs == { << 1, 1 >>, << 1 >> }
FillProof == [i \in 1..8 |-> 1]
FillNullifiers == {1, 2, 3}

\* Withdrawals and claims are issued once the pool is within FillSlack
\* insertions of its capacity.
NearFull ==
    /\ FillPool \in DOMAIN pools
    /\ pools[FillPool].next_note_index + FillSlack >= MAX_SHIELDED_NOTES

NextPoolFill ==
    \/ create_shielded_pool("alice", 1, 500, 1)
    \/ \E c \in FillCommitments, rp \in FillRangeProofs :
           shield_deposit(FillPool, "bob", c, 1, rp)
    \/ \E n \in FillNullifiers, mp \in Siblings, pb \in PathBits :
           NearFull /\ shield_withdraw(FillPool, "bob", n, mp, pb, FillProof, 1)
    \/ \E n \in FillNullifiers, mp \in Siblings, pb \in PathBits :
           NearFull /\ claim_shielded_rewards(FillPool, "bob", n, mp, pb, FillProof, 1)

SpecPoolFill == Init /\ [][NextPoolFill]_vars


\* ---------------------------------------------------------------------------
\* C23

DepositCall == res'.call.op = "shield_deposit" /\ res'.call.pool \in DOMAIN pools

\* C23: a shield_deposit into a pool whose next_note_index is 256 or more fails
\* with PoolFull; into a pool that still has room, a range proof shorter than
\* 64 bytes or an all-zero note commitment fails with InvalidRangeProof (and in
\* no case succeeds); and total_notes <= 256 in every reachable state.
C23_DepositBounds ==
    /\ [] (\A p \in DOMAIN pools : pools[p].total_notes <= 256)
    /\ [][ DepositCall =>
             LET p     == res'.call.pool
                 full  == pools[p].next_note_index >= 256
                 short == 32 * Len(res'.call.range_proof) < 64
                 zero  == WordBytes(res'.call.note_commitment) = [i \in 1..32 |-> 0]
             IN  /\ full => res'.err = "PoolFull"
                 /\ (short \/ zero) => res'.err # "Ok"
                 /\ (~full /\ (short \/ zero)) => res'.err = "InvalidRangeProof"
                 /\ (res'.err # "Ok") => (pools' = pools /\ notes' = notes)
         ]_vars

\* A deposit with an acceptable proof has just been refused by a pool that
\* holds 256 notes.
C23_Witness ==
    /\ res.call.op = "shield_deposit"
    /\ res.err = "PoolFull"
    /\ res.call.note_commitment = 1
    /\ res.call.range_proof = << 1, 1 >>
    /\ pools[res.call.pool].total_notes = 256

\* ---------------------------------------------------------------------------
\* C24

\* C24: the number of commitments inserted into a pool's root
\* (next_note_index) never exceeds MAX_SHIELDED_NOTES = 256, whatever sequence
\* of shield_deposit, shield_withdraw with change and claim_shielded_rewards
\* is applied to the pool.
C24_LeafBound ==
    \A p \in DOMAIN pools : pools[p].next_note_index <= MAX_SHIELDED_NOTES


\* A withdrawal with change has just succeeded on a pool that already held 256
\* inserted commitments, taking next_note_index to 257.
C24_Witness ==
    /\ res.call.op = "shield_withdraw"
    /\ res.err = "Ok"
    /\ res.call.output_commitment # 0
    /\ pools[res.call.pool].total_notes = 256
    /\ pools[res.call.pool].next_note_index = 257


\* ---------------------------------------------------------------------------
\* C25

\* the value at the top of the 8-level path that starts at leaf: level k (0..7)
\* combines with sibling k, on the left when bit k of the path byte is set
PathTop(leaf, siblings, path_byte) ==
    LET level[k \in 0..8] ==
            IF k = 0 THEN leaf
            ELSE LET below == level[k - 1]
                     bit   == (path_byte \div (2 ^ (k - 1))) % 2
                 IN  IF bit = 1 THEN keccak_hash(<< siblings[k], below >>)
                                ELSE keccak_hash(<< below, siblings[k] >>)
    IN  level[8]

\* C25: shield_withdraw and claim_shielded_rewards succeed only if the 8-level
\* fold from the nullifier (sibling || current when the path bit is set,
\* current || sibling otherwise) equals the pool's current merkle_root.  On an
\* existing, active pool and with a nullifier that has no record yet, any other
\* proof fails with InvalidMerkleProof, and that failure changes no account.
C25_MerkleProof ==
    [][ (NullifierStep /\ res'.call.pool \in DOMAIN pools) =>
          LET p   == res'.call.pool
              top == PathTop(res'.call.nullifier, res'.call.merkle_proof,
                             res'.call.merkle_path_indices)
              matches == top = pools[p].merkle_root
          IN  /\ (res'.err = "Ok") => matches
              /\ (~matches /\ NullifierKey \notin DOMAIN nullifiers /\ pools[p].is_active)
                    => res'.err = "InvalidMerkleProof"
              /\ (res'.err = "InvalidMerkleProof") =>
                    /\ ~matches
                    /\ pools' = pools /\ notes' = notes /\ nullifiers' = nullifiers
      ]_vars

\* A withdrawal whose path byte has bits 0 and 2 set has just been accepted
\* against a root produced by a deposit.
C25_Witness ==
    /\ res.call.op = "shield_withdraw"
    /\ res.err = "Ok"
    /\ res.call.merkle_path_indices = 5
    /\ pools[res.call.pool].total_notes > 0


\* ---------------------------------------------------------------------------
\* C26

WithdrawOk == res'.call.op = "shield_withdraw" /\ res'.err = "Ok"

Le32(n) == << n % 256, (n \div 256) % 256, (n \div 65536) % 256, (n \div 16777216) % 256 >>

\* C26: a successful shield_withdraw creates the NullifierRecord of
\* (pool, nullifier) and adds one to nullifier_count.  With a non-zero
\* output_commitment the root becomes Hash(root || output_commitment ||
\* le32(next_note_index)) and next_note_index grows by one; with an all-zero
\* output_commitment merkle_root and next_note_index are unchanged.
C26_WithdrawEffect ==
    [][ WithdrawOk =>
          LET p   == res'.call.pool
              n   == res'.call.nullifier
              oc  == res'.call.output_commitment
              old == pools[p]
          IN  /\ << p, n >> \notin DOMAIN nullifiers
              /\ DOMAIN nullifiers' = DOMAIN nullifiers \cup { << p, n >> }
              /\ nullifiers'[<< p, n >>].pool = p
              /\ nullifiers'[<< p, n >>].nullifier = n
              /\ \A k \in DOMAIN nullifiers : nullifiers'[k] = nullifiers[k]
              /\ pools'[p].nullifier_count = old.nullifier_count + 1
              /\ IF WordBytes(oc) # [i \in 1..32 |-> 0]
                 THEN /\ pools'[p].merkle_root =
                             keccak_hash(<< old.merkle_root, oc >> \o Le32(old.next_note_index))
                      /\ pools'[p].next_note_index = old.next_note_index + 1
                 ELSE /\ pools'[p].merkle_root = old.merkle_root
                      /\ pools'[p].next_note_index = old.next_note_index
      ]_vars

\* A withdrawal with change has just succeeded: the pool's tree has one more
\* commitment than it has notes.
C26_Witness ==
    /\ res.call.op = "shield_withdraw"
    /\ res.err = "Ok"
    /\ res.call.output_commitment # 0
    /\ pools[res.call.pool].next_note_index > pools[res.call.pool].total_notes


\* ---------------------------------------------------------------------------
\* C27

ClaimOk == res'.call.op = "claim_shielded_rewards" /\ res'.err = "Ok"

\* C27: a successful claim_shielded_rewards records the stake nullifier
\* (NullifierRecord created, nullifier_count + 1) and inserts
\* new_note_commitment: merkle_root becomes Hash(root || new_note_commitment ||
\* le32(next_note_index)) and next_note_index grows by one.  It succeeds only on
\* an active pool, with a nullifier that has no record, a Merkle proof that folds
\* to the root, and a reward proof of at least 256 bytes.
C27_ClaimEffect ==
    [][ ClaimOk =>
          LET p   == res'.call.pool
              n   == res'.call.nullifier
              c   == res'.call.new_note_commitment
              old == pools[p]
          IN  /\ old.is_active
              /\ << p, n >> \notin DOMAIN nullifiers
              /\ PathTop(n, res'.call.merkle_proof, res'.call.merkle_path_indices)
                     = old.merkle_root
              /\ 32 * Len(res'.call.proof) >= 256
              /\ DOMAIN nullifiers' = DOMAIN nullifiers \cup { << p, n >> }
              /\ nullifiers'[<< p, n >>].pool = p
              /\ nullifiers'[<< p, n >>].nullifier = n
              /\ \A k \in DOMAIN nullifiers : nullifiers'[k] = nullifiers[k]
              /\ pools'[p].nullifier_count = old.nullifier_count + 1
              /\ pools'[p].merkle_root =
                     keccak_hash(<< old.merkle_root, c >> \o Le32(old.next_note_index))
              /\ pools'[p].next_note_index = old.next_note_index + 1
              /\ pools'[p].total_notes = old.total_notes
              /\ notes' = notes
      ]_vars

\* A claim has just succeeded on a pool that holds a note, leaving the tree
\* with one more commitment than the pool has notes.
C27_Witness ==
    /\ res.call.op = "claim_shielded_rewards"
    /\ res.err = "Ok"
    /\ pools[res.call.pool].total_notes > 0
    /\ pools[res.call.pool].next_note_index = pools[res.call.pool].total_notes + 1
    /\ pools[res.call.pool].nullifier_count = 1


\* ---------------------------------------------------------------------------
\* C28

RevealOk == res'.call.op = "reveal_vote" /\ res'.err = "Ok"

\* what an observer of the log learns from a reveal: determined by the proposal,
\* the voter and the time of the call alone
RevealObservation(proposal, voter, time) ==
    << [type |-> "VoteRevealed", proposal |-> proposal, voter |-> voter,
        timestamp |-> time] >>

\* C28: the VoteRevealed event does not carry the vote choice.  The events of
\* every successful reveal_vote are a function of the proposal, the voter and
\* the time of the call only, so two runs that differ only in the revealed
\* choice (each with its matching commitment) emit identical VoteRevealed
\* events; and both choices do get revealed.
C28_RevealHidesChoice ==
    [][ RevealOk =>
          /\ res'.events = RevealObservation(res'.call.proposal, res'.call.voter, now)
          /\ DOMAIN res'.events[1] = {"type", "proposal", "voter", "timestamp"}
          /\ vote_records'[RevealKey].revealed_choice = res'.call.vote_choice
      ]_vars

\* Two voters have revealed opposite choices on the same proposal, the second
\* reveal having just succeeded.
C28_Witness ==
    /\ res.call.op = "reveal_vote"
    /\ res.err = "Ok"
    /\ \E p \in DOMAIN proposals :
          /\ << p, "alice" >> \in DOMAIN vote_records
          /\ << p, "bob" >> \in DOMAIN vote_records
          /\ vote_records[<< p, "alice" >>].has_revealed
          /\ vote_records[<< p, "bob" >>].has_revealed
          /\ vote_records[<< p, "alice" >>].revealed_choice
                # vote_records[<< p, "bob" >>].revealed_choice


\* ---------------------------------------------------------------------------
\* C29

\* a stealth_sign call with a non-zero proof has just been processed on the
\* proposal << m, id >>, which had one approval fewer than its threshold
LastSlotStep(m, id) ==
    /\ res'.call.op = "stealth_sign"
    /\ res'.call.proposal = << m, id >>
    /\ m \in DOMAIN multisigs
    /\ << m, id >> \in DOMAIN ms_proposals
    /\ ms_proposals[<< m, id >>].multisig = m
    /\ ~ms_proposals[<< m, id >>].is_executed
    /\ ms_proposals[<< m, id >>].approval_count + 1 = multisigs[m].threshold
    /\ WordBytes(res'.call.signer_proof) # [i \in 1..32 |-> 0]

NonZeroProofs == { sp \in SignerProofs : WordBytes(sp) # [i \in 1..32 |-> 0] }

\* the outcomes of two serialized calls: the one just processed, and a second
\* one (proof sp, commitment ac) processed in the state the first one left
FirstOutcome == res'.err
SecondOutcome(m, id, sp, ac) == stealth_sign_err(m, id, "bob", sp, ac)'

OneWins(first, second, losing) ==
    \/ first = "Ok" /\ second \in losing
    \/ second = "Ok" /\ first \in losing

\* the claim without a condition on the approvals already stored: whenever
\* approval_count = threshold - 1, two serialized stealth_sign calls with
\* non-zero proofs yield exactly one success, the other failing ThresholdReached
\* (distinct commitments) or DuplicateApproval / ThresholdReached (same
\* commitment)
C29_AsStated ==
    [][ \A m \in MultisigKeys, id \in MsProposalIds :
          LastSlotStep(m, id) =>
            \A sp \in NonZeroProofs, ac \in ApprovalCommitments :
               IF ac # res'.call.approval_commitment
               THEN OneWins(FirstOutcome, SecondOutcome(m, id, sp, ac),
                            {"ThresholdReached"})
               ELSE OneWins(FirstOutcome, SecondOutcome(m, id, sp, ac),
                            {"DuplicateApproval", "ThresholdReached"})
      ]_vars

\* C29: when a multisig proposal has approval_count = threshold - 1 and two
\* stealth_sign calls with non-zero proofs, whose approval commitments are not
\* among the approvals already stored, are serialized in either order, exactly
\* one succeeds (the first) and the other fails ThresholdReached, whether the
\* two commitments are distinct or the same; the proposal ends with
\* approval_count = threshold.
C29_SerializedSigns ==
    [][ \A m \in MultisigKeys, id \in MsProposalIds :
          (LastSlotStep(m, id)
             /\ res'.call.approval_commitment \notin StoredApprovals(<< m, id >>)) =>
            /\ FirstOutcome = "Ok"
            /\ ms_proposals'[<< m, id >>].approval_count = multisigs[m].threshold
            /\ \A sp \in NonZeroProofs, ac \in ApprovalCommitments :
                  ac \notin StoredApprovals(<< m, id >>) =>
                     /\ SecondOutcome(m, id, sp, ac) = "ThresholdReached"
                     /\ OneWins(FirstOutcome, SecondOutcome(m, id, sp, ac),
                                {"ThresholdReached"})
      ]_vars

\* The second of two serialized calls has just failed ThresholdReached on a
\* proposal with threshold 2 that the first call completed; its commitment is
\* not among the stored approvals.
C29_Witness ==
    /\ res.call.op = "stealth_sign"
    /\ res.err = "ThresholdReached"
    /\ res.call.signer_proof # 0
    /\ res.call.proposal \in DOMAIN ms_proposals
    /\ ms_proposals[res.call.proposal].approval_count = 2
    /\ ThresholdOf(res.call.proposal) = 2
    /\ res.call.approval_commitment \notin StoredApprovals(res.call.proposal)


\* ---------------------------------------------------------------------------
\* C30

\* every record of the family before the step is still there after it
Kept(family, family_next) == DOMAIN family \subseteq DOMAIN family_next

C31_CancelBeforeExpiry ==
    [][ (WalletStep("cancel_recovery") /\ ByOwner /\ res'.err = "Ok") =>
          /\ wallets[res'.call.wallet].recovery_active
          /\ now < wallets[res'.call.wallet].recovery_unlock_at
      ]_vars

\* The owner has just cancelled a recovery whose timelock had already expired.
C31_Witness ==
    /\ res.call.op = "cancel_recovery"
    /\ res.err = "Ok"
    /\ res.call.user = wallets[res.call.wallet].owner
    /\ ~wallets[res.call.wallet].recovery_active
    /\ wallets[res.call.wallet].recovery_unlock_at > wallets[res.call.wallet].recovery_initiated_at
    /\ now >= wallets[res.call.wallet].recovery_unlock_at


\* ---------------------------------------------------------------------------
\* C32

\* C32: the clock never goes backwards, and the phases of one proposal are
\* strictly ordered.  A cast_vote succeeds on it only before any reveal_vote
\* has succeeded (total_revealed = 0) and strictly before voting_ends_at; a
\* reveal_vote succeeds only from voting_ends_at on, strictly before
\* reveal_ends_at and before the proposal is finalized; finalize_proposal
\* succeeds only from reveal_ends_at on; and no cast_vote or reveal_vote
\* succeeds once the proposal is finalized.
C32_PhaseOrder ==
    /\ [][ now' >= now ]_vars
    /\ [] (\A p \in DOMAIN proposals :
              /\ proposals[p].total_revealed > 0 => now >= proposals[p].voting_ends_at
              /\ proposals[p].is_finalized => now >= proposals[p].reveal_ends_at)
    /\ [][ (res'.err = "Ok" /\ res'.call.op \in {"cast_vote", "reveal_vote", "finalize_proposal"}) =>
             LET p == res'.call.proposal
             IN  /\ p \in DOMAIN proposals
                 /\ (res'.call.op = "cast_vote") =>
                       /\ now < proposals[p].voting_ends_at
                       /\ proposals[p].total_revealed = 0
                       /\ ~proposals[p].is_finalized
                 /\ (res'.call.op = "reveal_vote") =>
                       /\ now >= proposals[p].voting_ends_at
                       /\ now < proposals[p].reveal_ends_at
                       /\ ~proposals[p].is_finalized
                       /\ proposals'[p].total_commitments = proposals[p].total_commitments
                 /\ (res'.call.op = "finalize_proposal") =>
                       /\ now >= proposals[p].reveal_ends_at
                       /\ proposals'[p].total_revealed = proposals[p].total_revealed
         ]_vars

\* A proposal that took a vote, then a reveal, has just been finalized.
C32_Witness ==
    /\ res.call.op = "finalize_proposal"
    /\ res.err = "Ok"
    /\ proposals[res.call.proposal].is_finalized
    /\ proposals[res.call.proposal].total_commitments > 0
    /\ proposals[res.call.proposal].total_revealed > 0


\* ---------------------------------------------------------------------------
\* C33

\* C33: each vote is tallied at most once and only by its voter.  A reveal_vote
\* naming a record that is already revealed fails (with AlreadyRevealed while
\* the reveal window is open) and changes nothing; a successful reveal changes
\* only the record of the calling voter; and in every reachable state yes_count
\* is the number of the proposal's vote records with has_revealed and
\* revealed_choice = TRUE, no_count the number with has_revealed and
\* revealed_choice = FALSE.
C33_TallyOnce ==
    /\ [] (\A p \in DOMAIN proposals :
              /\ proposals[p].yes_count = Cardinality({ k \in VotesOf(p) :
                     vote_records[k].has_revealed /\ vote_records[k].revealed_choice })
              /\ proposals[p].no_count = Cardinality({ k \in VotesOf(p) :
                     vote_records[k].has_revealed /\ ~vote_records[k].revealed_choice }))
    /\ [][ (RevealStep /\ res'.call.proposal \in DOMAIN proposals
                       /\ RevealKey \in DOMAIN vote_records) =>
             /\ vote_records[RevealKey].voter = res'.call.voter
             /\ \A k \in DOMAIN vote_records \ { RevealKey } :
                    vote_records'[k] = vote_records[k]
             /\ vote_records[RevealKey].has_revealed =>
                    /\ res'.err # "Ok"
                    /\ RevealWindowOpen => res'.err = "AlreadyRevealed"
                    /\ vote_records' = vote_records
                    /\ proposals' = proposals
         ]_vars

\* A voter whose yes vote is already tallied has just tried to reveal again.
C33_Witness ==
    /\ res.call.op = "reveal_vote"
    /\ res.err = "AlreadyRevealed"
    /\ proposals[res.call.proposal].yes_count = 1
    /\ vote_records[<< res.call.proposal, res.call.voter >>].revealed_choice


\* ---------------------------------------------------------------------------
\* C34

\* C34: in every reachable state a pool's merkle_root is the left fold, from 32
\* zero bytes, of root := Hash(root || c_k || le32(k)) over the commitments
\* c_0 .. c_(n-1) inserted so far, in the order applied, with n =
\* next_note_index and the indices consecutive from 0.  The insertions are
\* exactly those of successful shield_deposit calls, shield_withdraw calls with
\* a non-zero output and claim_shielded_rewards calls.
C34_RootIsFold ==
    /\ [] (\A p \in DOMAIN pools :
              LET n == pools[p].next_note_index
                  fold[k \in 0..n] ==
                      IF k = 0 THEN 0
                      ELSE keccak_hash(<< fold[k - 1], inserted[p][k][1] >> \o Le32(k - 1))
              IN  /\ Len(inserted[p]) = n
                  /\ \A k \in 1..n : inserted[p][k][2] = k - 1
                  /\ WordBytes(fold[0]) = [i \in 1..32 |-> 0]
                  /\ pools[p].merkle_root = fold[n])
    /\ [][ \A p \in DOMAIN pools :
              LET hit == res'.err = "Ok" /\ "pool" \in DOMAIN res'.call /\ res'.call.pool = p
                  op  == res'.call.op
                  idx == pools[p].next_note_index
              IN  inserted'[p] =
                     IF hit /\ op = "shield_deposit"
                     THEN Append(inserted[p], << res'.call.note_commitment, idx >>)
                     ELSE IF hit /\ op = "shield_withdraw" /\ res'.call.output_commitment # 0
                     THEN Append(inserted[p], << res'.call.output_commitment, idx >>)
                     ELSE IF hit /\ op = "claim_shielded_rewards"
                     THEN Append(inserted[p], << res'.call.new_note_commitment, idx >>)
                     ELSE inserted[p]
         ]_vars

\* A pool whose root covers a deposited note followed by a commitment inserted
\* by a withdrawal or a claim.
C34_Witness ==
    \E p \in DOMAIN pools :
        /\ pools[p].next_note_index = 2
        /\ pools[p].total_notes = 1
        /\ << p, 0 >> \in DOMAIN notes
        /\ pools[p].nullifier_count = 1


\* ---------------------------------------------------------------------------
\* C35

\* The voting program with an advancing clock and callers that keep asking for
\* finalization: the clock is not held back for ever while it can advance, and a
\* finalize_proposal call on each proposal is not withheld for ever.
SpecVoteLive ==
    /\ Init
    /\ [][NextVote]_vars
    /\ WF_vars(\E t \in Times : Tick(t))
    /\ \A p \in VoteProposalKeys : WF_vars(\E a \in Pubkeys : finalize_proposal(p, a))

\* C35: every created proposal can be finalized.  From reveal_ends_at on,
\* finalize_proposal on a proposal not yet finalized succeeds for any caller,
\* whatever was cast or revealed; so with an advancing clock and fair callers
\* every proposal eventually has is_finalized = TRUE, and keeps it for ever.
C35_EventuallyFinalized ==
    /\ \A p \in VoteProposalKeys :
          (p \in DOMAIN proposals) ~> (p \in DOMAIN proposals /\ proposals[p].is_finalized)
    /\ \A p \in VoteProposalKeys :
          [] ((p \in DOMAIN proposals /\ proposals[p].is_finalized)
                 => [] (p \in DOMAIN proposals /\ proposals[p].is_finalized))
    /\ [][ (res'.call.op = "finalize_proposal" /\ res'.call.proposal \in DOMAIN proposals
              /\ now >= proposals[res'.call.proposal].reveal_ends_at
              /\ ~proposals[res'.call.proposal].is_finalized) =>
             /\ res'.err = "Ok"
             /\ proposals'[res'.call.proposal].is_finalized
         ]_vars

\* A proposal has just been finalized while a committed vote was never revealed.
C35_Witness ==
    /\ res.call.op = "finalize_proposal"
    /\ res.err = "Ok"
    /\ proposals[res.call.proposal].is_finalized
    /\ proposals[res.call.proposal].total_revealed
           < proposals[res.call.proposal].total_commitments


\* ---------------------------------------------------------------------------
\* C36

\* C36: a wallet's commitment and owner never change after
\* initialize_commitment: no instruction (initiate_recovery, execute_recovery,
\* cancel_recovery and submit_proof among them) alters them, so after a
\* successful execute_recovery the stored commitment is still the original one
\* and not the recovery_commitment.
C36_CommitmentFixed ==
    [][ \A w \in DOMAIN wallets :
          /\ w \in DOMAIN wallets'
          /\ wallets'[w].commitment = wallets[w].commitment
          /\ wallets'[w].owner = wallets[w].owner
      ]_vars

\* A recovery towards a different commitment has just been executed, and the
\* wallet still holds its original commitment.
C36_Witness ==
    /\ res.call.op = "execute_recovery"
    /\ res.err = "Ok"
    /\ wallets[res.call.wallet].recovery_executed_at > 0
    /\ wallets[res.call.wallet].commitment # wallets[res.call.wallet].recovery_commitment


\* ---------------------------------------------------------------------------
\* C37

\* C37: in every reachable state a pool's nullifier_count is the number of
\* NullifierRecords of that pool.  The count starts at 0, grows by exactly one
\* with every successful shield_withdraw or claim_shielded_rewards on the pool
\* and is unchanged by every other step, so it also equals the number of those
\* successes; it never decreases.
C37_NullifierCount ==
    /\ [] (\A p \in DOMAIN pools :
              pools[p].nullifier_count
                  = Cardinality({ k \in DOMAIN nullifiers : k[1] = p }))
    /\ [][ /\ \A p \in DOMAIN pools' \ DOMAIN pools : pools'[p].nullifier_count = 0
           /\ \A p \in DOMAIN pools :
                 LET spent == NullifierStep /\ res'.err = "Ok" /\ res'.call.pool = p
                 IN  /\ pools'[p].nullifier_count >= pools[p].nullifier_count
                     /\ pools'[p].nullifier_count
                            = pools[p].nullifier_count + (IF spent THEN 1 ELSE 0)
         ]_vars

\* A pool on which two nullifiers have been spent, the second one by a claim.
C37_Witness ==
    /\ res.call.op = "claim_shielded_rewards"
    /\ res.err = "Ok"
    /\ pools[res.call.pool].nullifier_count = 2


\* ---------------------------------------------------------------------------
\* C38

\* C38: in every reachable state a pool's total_notes is the number of
\* ShieldedNote records of that pool, their note_index values are pairwise
\* distinct and each below next_note_index, and total_notes <= next_note_index.
\* The gap next_note_index - total_notes is 0 for a new pool, grows by one with
\* every change output or reward note inserted and is otherwise unchanged, so
\* the two are equal only while no such insertion has happened.
C38_NoteCount ==
    /\ [] (\A p \in DOMAIN pools :
              LET mine == { k \in DOMAIN notes : notes[k].pool = p }
              IN  /\ pools[p].total_notes = Cardinality(mine)
                  /\ \A k \in mine : notes[k].note_index < pools[p].next_note_index
                  /\ \A k \in mine, l \in mine :
                        notes[k].note_index = notes[l].note_index => k = l
                  /\ pools[p].total_notes <= pools[p].next_note_index)
    /\ [][ /\ \A p \in DOMAIN pools' \ DOMAIN pools :
                 pools'[p].next_note_index = 0 /\ pools'[p].total_notes = 0
           /\ \A p \in DOMAIN pools :
                 LET hit == res'.err = "Ok" /\ "pool" \in DOMAIN res'.call /\ res'.call.pool = p
                     extra == \/ hit /\ res'.call.op = "claim_shielded_rewards"
                              \/ hit /\ res'.call.op = "shield_withdraw"
                                     /\ res'.call.output_commitment # 0
                 IN  pools'[p].next_note_index - pools'[p].total_notes
                        = (pools[p].next_note_index - pools[p].total_notes)
                              + (IF extra THEN 1 ELSE 0)
         ]_vars

\* A deposit has just stored its note at index 1 of a pool whose index 0 was
\* taken by a change output or a reward note.
C38_Witness ==
    /\ res.call.op = "shield_deposit"
    /\ res.err = "Ok"
    /\ << res.call.pool, 1 >> \in DOMAIN notes
    /\ << res.call.pool, 0 >> \notin DOMAIN notes
    /\ pools[res.call.pool].total_notes = 1
    /\ pools[res.call.pool].next_note_index = 2


\* ---------------------------------------------------------------------------
\* C39

\* C39: every commitment ever inserted into a pool's root is non-zero:
\* shield_deposit rejects an all-zero note commitment, shield_withdraw inserts
\* its output commitment only when it is non-zero, and claim_shielded_rewards
\* never inserts an all-zero new_note_commitment.
C39_NonZeroInserted ==
    \A p \in DOMAIN pools :
        \A k \in 1..Len(inserted[p]) :
            WordBytes(inserted[p][k][1]) # [i \in 1..32 |-> 0]

\* A claim carrying an all-zero new_note_commitment has just succeeded and its
\* commitment has been inserted into the root.
C39_Witness ==
    /\ res.call.op = "claim_shielded_rewards"
    /\ res.err = "Ok"
    /\ res.call.new_note_commitment = 0
    /\ Len(inserted[res.call.pool]) = pools[res.call.pool].next_note_index
    /\ inserted[res.call.pool][Len(inserted[res.call.pool])][1] = 0


\* ---------------------------------------------------------------------------
\* C40

\* C40: initialize_commitment on a fresh wallet address accepts any 32-byte
\* commitment, inside the field or not.  If the stored commitment is not a
\* field element (>= the BN128 modulus), every submit_proof on that wallet
\* fails: with InvalidPublicSignal when the first signal equals the commitment
\* and the proof passes the structure and point checks, with CommitmentMismatch
\* or an earlier error otherwise.
C40_UnusableCommitment ==
    /\ [][ (res'.call.op = "initialize_commitment" /\ res'.call.user \notin DOMAIN wallets) =>
             /\ res'.err = "Ok"
             /\ wallets'[res'.call.user].commitment = res'.call.commitment ]_vars
    /\ [][ (SubmitStep /\ ~InField(wallets[res'.call.wallet].commitment)) =>
             LET c  == wallets[res'.call.wallet].commitment
                 pd == res'.call.proof_data
                 ps == res'.call.public_signals
                 earlier == {"InvalidProofStructure", "InvalidProof", "InvalidProofPoint"}
                 sound == /\ 32 * Len(pd) >= 256
                          /\ InField(pd[1]) /\ InField(pd[2])
                          /\ InField(pd[7]) /\ InField(pd[8])
             IN  /\ res'.err # "Ok"
                 /\ (Len(ps) >= 1 /\ ps[1] = c) =>
                        /\ res'.err \in earlier \cup {"InvalidPublicSignal"}
                        /\ sound => res'.err = "InvalidPublicSignal"
                 /\ (Len(ps) >= 1 /\ ps[1] # c) =>
                        res'.err \in earlier \cup {"InvalidPublicSignal", "CommitmentMismatch"}
                 /\ (Len(ps) = 0) => res'.err \in earlier
         ]_vars

\* A well-formed proof whose first signal equals the wallet's commitment has
\* just been refused because that commitment is the BN128 modulus itself.
C40_Witness ==
    /\ res.call.op = "submit_proof"
    /\ res.err = "InvalidPublicSignal"
    /\ res.call.wallet \in DOMAIN wallets
    /\ wallets[res.call.wallet].commitment = WORD_MODULUS
    /\ res.call.public_signals = << WORD_MODULUS >>
    /\ res.call.proof_data = [i \in 1..8 |-> 1]

====
